---------------------------- MODULE Spec2Model ----------------------------
(***************************************************************************)
(* A model of the swarm node of quartznet (src/src/swarm.rs): the peer     *)
(* receive loop, the message dispatcher, the event processor, the          *)
(* rebroadcast, the request handlers and the session manager               *)
(* (src/src/session_manager.rs), over frames that are byte sequences.      *)
(*                                                                         *)
(* Spec is the Node under event traffic on all its sockets with a          *)
(* transport whose sends succeed, RequestSpec the Node under request and   *)
(* response traffic with a task waiting in SessionManager::request,        *)
(* PostsSpec the Posts request handler over every post table within        *)
(* PostIds, ListSpec the Node under UpdatePublisherList events,            *)
(* TransportSpec the Node over a transport whose sends may fail and whose  *)
(* channels may close, DisconnectSpec the Node with a task in              *)
(* Node::disconnect, ConnectSpec Subscription::find_swarm_connection       *)
(* (src/src/subscriptions.rs) with the task Node::connect spawns,          *)
(* ReconnectSpec a Node followed by a second Node over the same database,  *)
(* CriticalSpec process_event with the lock of latest_event_id and the     *)
(* handler as separate steps, BreakupSpec breakup_data                     *)
(* (src/src/persistence/channel.rs) and CodecSpec the serde                *)
(* implementations of Profile (src/src/message.rs).                        *)
(*                                                                         *)
(* Frames are sequences of bytes (0..255), 1-indexed here where the Rust   *)
(* slices are 0-indexed: the Rust slice &m[k..] is Slice(m, k) and the     *)
(* Rust byte m[k] is m[k + 1].                                             *)
(*                                                                         *)
(* Library code that is not part of the repository is modelled by its      *)
(* contract: bincode reads fixed-width little-endian integers and a serde  *)
(* SeqAccess hands the visitor the next element while input remains;       *)
(* HashCode::generate_from is a deterministic digest (Digest) and          *)
(* Signature::verify accepts exactly the signature made for that hash and  *)
(* key; a database call either succeeds with the effect its statement      *)
(* names or fails with a persistence error; a send on a cadet channel      *)
(* either succeeds or fails with a gnunet error; an async_std channel      *)
(* whose Receiver was dropped is closed, and a send into it fails.         *)
(* SESSION_TIMEOUT is not counted: a request that waits may time out at    *)
(* any step.                                                               *)
(*                                                                         *)
(* Except in ConnectSpec and ReconnectSpec, a receive loop is taken to     *)
(* run on every socket of the Node, the parent socket and each child       *)
(* socket.                                                                 *)
(***************************************************************************)
EXTENDS Integers, Sequences, FiniteSets, TLC

(***************************************************************************)
(* Bounds of the model.                                                    *)
(***************************************************************************)
\* The largest number of child sockets a Node is given.
MaxChildren == 2
\* The largest number of frames the receive loops take in together.
MaxReceived == 2
\* Width in bytes of the opaque gnunet HashCode and Signature values.
HashCodeLen == 64
SignatureLen == 64
\* The longest data and the largest block length breakup_data is called with.
MaxDataLen == 4
MaxBlockLen == 3
\* The longest list of cached peers, and of publishers, of a Subscription.
MaxPeers == 2
\* The longest title and the longest description of a Profile that is
\* serialized.
MaxTitleLen == 256
MaxDescriptionLen == 300

(***************************************************************************)
(* Program constants.                                                      *)
(***************************************************************************)
\* swarm.rs:326, "Size of the public key in bytes"
PublicKeyLen == 33
\* swarm.rs:245, the future-event window
EventWindow == 100

(***************************************************************************)
(* Byte slices.                                                            *)
(***************************************************************************)
\* &m[k..]
Slice(m, k) == SubSeq(m, k + 1, Len(m))

\* &m[..n]
Take(m, n) == SubSeq(m, 1, n)

Repeat(b, n) == [i \in 1..n |-> b]

RECURSIVE SumBytes(_)
SumBytes(m) == IF m = << >> THEN 0 ELSE (m[1] + SumBytes(Tail(m))) % 65521

(***************************************************************************)
(* Unsigned 64-bit integers, kept as their 8 little-endian bytes so that   *)
(* the arithmetic of the code is exact in its width.                       *)
(***************************************************************************)
\* The 8 bytes of n, for 0 <= n < 2^31.
U64(n) ==
    [i \in 1..8 |-> CASE i = 1 -> n % 256
                      [] i = 2 -> (n \div 256) % 256
                      [] i = 3 -> (n \div 65536) % 256
                      [] i = 4 -> (n \div 16777216) % 256
                      [] OTHER -> 0]

\* The 2 bytes of n, for 0 <= n < 2^16.
U16(n) == << n % 256, (n \div 256) % 256 >>

\* The 4 bytes of n, for 0 <= n < 2^31: u32::to_le_bytes.
U32(n) == << n % 256, (n \div 256) % 256, (n \div 65536) % 256, (n \div 16777216) % 256 >>

\* Whether the u64 fits the model's integers, and its value then.
IsSmallU64(b) == b[5] = 0 /\ b[6] = 0 /\ b[7] = 0 /\ b[8] = 0 /\ b[4] < 128

SmallU64Value(b) == b[1] + 256 * b[2] + 65536 * b[3] + 16777216 * b[4]

\* a - b in u64: the 8 bytes of the wrapped difference and whether it borrowed.
RECURSIVE SubBytes(_, _, _, _)
SubBytes(a, b, i, borrow) ==
    IF i > 8 THEN [bytes |-> << >>, borrow |-> borrow]
    ELSE LET d == a[i] - b[i] - borrow
             r == SubBytes(a, b, i + 1, IF d < 0 THEN 1 ELSE 0)
         IN  [bytes |-> << (d + 256) % 256 >> \o r.bytes, borrow |-> r.borrow]

WrappingSub(a, b) == SubBytes(a, b, 1, 0)

\* a + 1 in u64: the 8 bytes of the wrapped sum and whether it carried out.
RECURSIVE IncBytes(_, _, _)
IncBytes(a, i, carry) ==
    IF i > 8 THEN [bytes |-> << >>, carry |-> carry]
    ELSE LET d == a[i] + carry
             r == IncBytes(a, i + 1, IF d > 255 THEN 1 ELSE 0)
         IN  [bytes |-> << d % 256 >> \o r.bytes, carry |-> r.carry]

WrappingInc(a) == IncBytes(a, 1, 1)

\* a > n for a u64 a and 0 <= n < 256.
U64GreaterThanSmall(a, n) ==
    \/ a[1] > n
    \/ \E i \in 2..8 : a[i] # 0

\* a > b for two u64.
U64Greater(a, b) ==
    \E i \in 1..8 : a[i] > b[i] /\ \A j \in (i + 1)..8 : a[j] = b[j]

(***************************************************************************)
(* The codec: bincode readers.  A reader returns [ok, value, rest].        *)
(***************************************************************************)
Failed == [ok |-> FALSE, value |-> << >>, rest |-> << >>]

\* The `?` of a reader: go on with F on what was read, or fail.
Bind(r, F(_)) == IF r.ok THEN F(r) ELSE Failed

ReadBytes(m, n) ==
    IF Len(m) < n THEN Failed
    ELSE [ok |-> TRUE, value |-> Take(m, n), rest |-> Slice(m, n)]

ReadU8(m) ==
    IF Len(m) < 1 THEN Failed
    ELSE [ok |-> TRUE, value |-> m[1], rest |-> Slice(m, 1)]

ReadU16(m) ==
    IF Len(m) < 2 THEN Failed
    ELSE [ok |-> TRUE, value |-> m[1] + 256 * m[2], rest |-> Slice(m, 2)]

\* A u32 is kept as its 4 bytes.
ReadU32(m) == ReadBytes(m, 4)

ReadU64(m) == ReadBytes(m, 8)

ReadHashCode(m) == ReadBytes(m, HashCodeLen)

ReadSignature(m) == ReadBytes(m, SignatureLen)

ReadPublicKey(m) == ReadBytes(m, PublicKeyLen)

NoHash == [some |-> FALSE, hash |-> << >>]

SomeHash(h) == [some |-> TRUE, hash |-> h]

\* Option<HashCode>: a tag byte, then the hash when the tag is 1.
ReadOptionHash(m) ==
    IF Len(m) < 1 THEN Failed
    ELSE IF m[1] = 0 THEN [ok |-> TRUE, value |-> NoHash, rest |-> Slice(m, 1)]
    ELSE IF m[1] = 1 THEN
        Bind(ReadHashCode(Slice(m, 1)), LAMBDA h :
            [ok |-> TRUE, value |-> SomeHash(h.value), rest |-> h.rest])
    ELSE Failed

\* The number of ASCII bytes m starts with.
AsciiRun(m) ==
    IF \A i \in 1..Len(m) : m[i] < 128 THEN Len(m)
    ELSE (CHOOSE i \in 1..Len(m) : m[i] >= 128 /\ \A j \in 1..(i - 1) : m[j] < 128) - 1

\* String::from_utf8: whether the bytes are well-formed UTF-8.  A run of
\* ASCII bytes is passed over at once.
RECURSIVE IsUtf8(_)
IsUtf8(m) ==
    LET Cont(i) == Len(m) >= i /\ m[i] \in 128..191
    IN  IF m = << >> THEN TRUE
        ELSE IF m[1] < 128 THEN IsUtf8(Slice(m, AsciiRun(m)))
        ELSE IF m[1] \in 194..223 THEN Cont(2) /\ IsUtf8(Slice(m, 2))
        ELSE IF m[1] \in 224..239 THEN
            /\ Cont(2) /\ Cont(3)
            /\ (m[1] = 224 => m[2] >= 160)
            /\ (m[1] = 237 => m[2] <= 159)
            /\ IsUtf8(Slice(m, 3))
        ELSE IF m[1] \in 240..244 THEN
            /\ Cont(2) /\ Cont(3) /\ Cont(4)
            /\ (m[1] = 240 => m[2] >= 144)
            /\ (m[1] = 244 => m[2] <= 143)
            /\ IsUtf8(Slice(m, 4))
        ELSE FALSE

\* ProfileVisitor::visit_seq: revision, u8-prefixed title, u16-prefixed
\* description, optional picture hash.
DeserializeProfile(m) ==
    Bind(ReadU64(m), LAMBDA revision :
    Bind(ReadU8(revision.rest), LAMBDA tlen :
    Bind(ReadBytes(tlen.rest, tlen.value), LAMBDA title :
    IF ~IsUtf8(title.value) THEN Failed ELSE
    Bind(ReadU16(title.rest), LAMBDA dlen :
    Bind(ReadBytes(dlen.rest, dlen.value), LAMBDA descr :
    IF ~IsUtf8(descr.value) THEN Failed ELSE
    Bind(ReadOptionHash(descr.rest), LAMBDA picture :
        [ok    |-> TRUE,
         value |-> [revision        |-> revision.value,
                    title           |-> title.value,
                    description     |-> descr.value,
                    profile_picture |-> picture.value],
         rest  |-> picture.rest]))))))

\* ChannelProfile { base: Profile, stylesheet: Option<HashCode> }
DeserializeChannelProfile(m) ==
    Bind(DeserializeProfile(m), LAMBDA base :
    Bind(ReadOptionHash(base.rest), LAMBDA stylesheet :
        [ok    |-> TRUE,
         value |-> [base |-> base.value, stylesheet |-> stylesheet.value],
         rest  |-> stylesheet.rest]))

\* UpdateChannelProfileEventMessage { hash, signature, profile }
DeserializeUpdateChannelProfileEventMessage(m) ==
    Bind(ReadHashCode(m), LAMBDA hash :
    Bind(ReadSignature(hash.rest), LAMBDA signature :
    Bind(DeserializeChannelProfile(signature.rest), LAMBDA profile :
        [ok    |-> TRUE,
         value |-> [hash      |-> hash.value,
                    signature |-> signature.value,
                    profile   |-> profile.value],
         rest  |-> profile.rest])))

\* EventTypeVisitor::visit_seq: 0 is Channel, 1 is Publisher followed by the
\* publisher's key, any other tag is an error.
DeserializeEventType(m) ==
    Bind(ReadU8(m), LAMBDA tag :
        IF tag.value = 0 THEN
            [ok |-> TRUE, value |-> [kind |-> "Channel", address |-> << >>], rest |-> tag.rest]
        ELSE IF tag.value = 1 THEN
            Bind(ReadPublicKey(tag.rest), LAMBDA key :
                [ok |-> TRUE, value |-> [kind |-> "Publisher", address |-> key.value],
                 rest |-> key.rest])
        ELSE Failed)

\* Vec<PublicKey>: a u64 count, then that many keys.
RECURSIVE ReadKeys(_, _)
ReadKeys(m, n) ==
    IF n = 0 THEN [ok |-> TRUE, value |-> << >>, rest |-> m]
    ELSE Bind(ReadPublicKey(m), LAMBDA key :
         Bind(ReadKeys(key.rest, n - 1), LAMBDA more :
            [ok |-> TRUE, value |-> << key.value >> \o more.value, rest |-> more.rest]))

DeserializePublicKeyVec(m) ==
    Bind(ReadU64(m), LAMBDA count :
        IF ~IsSmallU64(count.value) THEN Failed
        ELSE IF SmallU64Value(count.value) * PublicKeyLen > Len(count.rest) THEN Failed
        ELSE ReadKeys(count.rest, SmallU64Value(count.value)))

(***************************************************************************)
(* The codec: bincode writers.                                             *)
(***************************************************************************)
SerializeOptionHash(o) == IF o.some THEN << 1 >> \o o.hash ELSE << 0 >>

\* impl Serialize for Profile: the lengths are written `as u8` and `as u16`.
SerializeProfile(p) ==
    p.revision
    \o << Len(p.title) % 256 >> \o p.title
    \o U16(Len(p.description) % 65536) \o p.description
    \o SerializeOptionHash(p.profile_picture)

SerializeChannelProfile(p) == SerializeProfile(p.base) \o SerializeOptionHash(p.stylesheet)

\* impl Serialize for EventType
SerializeEventType(t) ==
    IF t.kind = "Channel" THEN << 0 >> ELSE << 1 >> \o t.address

\* bincode::serialized_size( &event_type )
SerializedSizeEventType(t) == Len(SerializeEventType(t))

(***************************************************************************)
(* Hashes and signatures.                                                  *)
(***************************************************************************)
\* HashCode::generate_from: a deterministic digest whose bytes are never 0.
DigestOfSum(sum) == [i \in 1..HashCodeLen |-> 1 + ((sum + 7 * i) % 255)]

Digest(data) == DigestOfSum(SumBytes(data))

\* The signature of `hash` made with the private key of `public_key`.
SignatureOfSum(sum) == [i \in 1..SignatureLen |-> 1 + ((sum + 3 * i) % 255)]

SignatureOf(hash, public_key) == SignatureOfSum(SumBytes(hash) + SumBytes(public_key))

\* common.rs, Signature::verify_hash
verify_hash(signature, hash, public_key) == signature = SignatureOf(hash, public_key)

(***************************************************************************)
(* Keys, and the frames the peers send.  The frames follow the layout of   *)
(* the protocol: u8 direction | u64 event_id | event type | inner event.   *)
(***************************************************************************)
KeyOf(b) == Repeat(b, PublicKeyLen)

\* The channel's address: the key of its owner.
OwnerKey == KeyOf(5)
\* Publishers with a row in the publisher table, and one without.
PublisherKey == KeyOf(1)
StrangerKey == KeyOf(2)

KnownPublishers == {PublisherKey}

\* The posts the Node holds.
HeldPosts == {0, 2, 3}

ChannelType == [kind |-> "Channel", address |-> << >>]

PublisherType(key) == [kind |-> "Publisher", address |-> key]

ProfileOf(rev) ==
    [base       |-> [revision        |-> U64(rev),
                     title           |-> << 81, 110 >>,
                     description     |-> << 110, 101, 116 >>,
                     profile_picture |-> NoHash],
     stylesheet |-> NoHash]

EventFrame(id, type, inner) == << 0 >> \o U64(id) \o SerializeEventType(type) \o inner

\* Channel / UpdateChannelProfile with the hash of the profile and the owner's
\* signature over it.
ProfileEvent(id, rev) ==
    LET body == SerializeChannelProfile(ProfileOf(rev))
        hash == Digest(body)
    IN  EventFrame(id, ChannelType, << 0 >> \o hash \o SignatureOf(hash, OwnerKey) \o body)

\* The same with a hash that is not the profile's (and signed as it stands).
BadHashProfileEvent(id, rev) ==
    LET body == SerializeChannelProfile(ProfileOf(rev))
        hash == Digest(body \o << 1 >>)
    IN  EventFrame(id, ChannelType, << 0 >> \o hash \o SignatureOf(hash, OwnerKey) \o body)

\* The same with the right hash and a signature over another hash.
BadSignatureProfileEvent(id, rev) ==
    LET body == SerializeChannelProfile(ProfileOf(rev))
        hash == Digest(body)
    IN  EventFrame(id, ChannelType,
                   << 0 >> \o hash \o SignatureOf(Digest(body \o << 1 >>), OwnerKey) \o body)

\* Publisher(key) / PublishPost { hash }
PublishPostEvent(id, key) ==
    EventFrame(id, PublisherType(key), << 1 >> \o Digest(U64(id)))

\* The frames a peer may send.
Frames ==
    << PublishPostEvent(0, PublisherKey),
       PublishPostEvent(1, PublisherKey),
       PublishPostEvent(2, PublisherKey),
       PublishPostEvent(101, PublisherKey),
       PublishPostEvent(2, StrangerKey),
       ProfileEvent(1, 3),
       ProfileEvent(2, 3),
       BadHashProfileEvent(1, 3),
       BadSignatureProfileEvent(1, 3) >>

FrameIds == 1..Len(Frames)

\* The length of the mask of a Posts request for `post_id_count` posts.
MaskLength(post_id_count) ==
    (post_id_count \div 8) + (IF post_id_count % 8 > 0 THEN 1 ELSE 0)

\* The payload of a Posts request: the struct Posts and the mask after it.
PostsRequest(key, post_id_start, post_id_count) ==
    key \o U64(post_id_start) \o U16(post_id_count)
        \o Repeat(255, MaskLength(post_id_count))

\* A Request frame: direction byte, request id, request type, payload.
RequestFrame(request_id, request_type, payload) ==
    << 1 >> \o U32(request_id) \o << request_type >> \o payload

\* A Request frame with four more bytes between the direction byte and the
\* request id.
PaddedRequestFrame(padding, request_id, request_type, payload) ==
    << 1 >> \o U32(padding) \o U32(request_id) \o << request_type >> \o payload

\* A Response frame: direction byte, session id, the rest.
ResponseFrame(session_id, rest) == << 2 >> \o U32(session_id) \o rest

\* The session ids of the model.
SessionIds == {U32(7), U32(42)}

\* The request and response frames a peer may send, two frames with a
\* direction byte that is no MessageDirectionType, and Files and Blocks
\* requests.
\* Frames that end before the fields their handler reads: an empty frame, a
\* Request frame of 3 and one of 8 bytes, a Posts request without the mask of
\* its 8 posts, an Event frame of 3 bytes, a Response frame of 2 bytes.
ShortFrames ==
    << << >>,
       << 1, 7, 0 >>,
       << 1, 9, 0, 0, 0, 7, 0, 0 >>,
       PaddedRequestFrame(9, 7, 0, PublisherKey \o U64(0) \o U16(8)),
       << 0, 1, 0 >>,
       << 2, 7 >> >>

RequestFrames ==
    << RequestFrame(7, 0, PostsRequest(PublisherKey, 0, 4)),
       RequestFrame(7, 0, PostsRequest(StrangerKey, 0, 4)),
       PaddedRequestFrame(9, 7, 0, PostsRequest(PublisherKey, 0, 4)),
       PaddedRequestFrame(9, 7, 0, PostsRequest(StrangerKey, 0, 4)),
       PaddedRequestFrame(9, 7, 1, << >>),
       ResponseFrame(42, << 0, 1 >>),
       ResponseFrame(7, << 0, 2 >>),
       << 3 >> \o U64(1),
       << 255 >>,
       RequestFrame(7, 1, << >>),
       RequestFrame(7, 2, U64(3)),
       PaddedRequestFrame(9, 7, 2, << >>) >> \o ShortFrames

\* Posts requests, laid out as process_request reads them, for a range of
\* post_id_start and post_id_count.
PostsFrame(post_id_start, post_id_count) ==
    PaddedRequestFrame(9, 7, 0, PostsRequest(PublisherKey, post_id_start, post_id_count))

PostsFrames ==
    << PostsFrame(0, 4), PostsFrame(1, 4), PostsFrame(0, 0), PostsFrame(0, 1),
       PostsFrame(1, 8), PostsFrame(0, 9) >>

RECURSIVE Concat(_)
Concat(seqs) == IF seqs = << >> THEN << >> ELSE Head(seqs) \o Concat(Tail(seqs))

\* Vec<PublicKey> as bincode writes it: a u64 count, then the keys.
SerializePublicKeyVec(keys) == U64(Len(keys)) \o Concat(keys)

\* Channel / UpdatePublisherList with the list of `keys`, as the protocol lays
\* it out: the channel event type follows the event id and the event type.
PublisherListEvent(id, keys) ==
    EventFrame(id, ChannelType, << 1 >> \o SerializePublicKeyVec(keys))

\* The Channel event frame that the node takes for an UpdatePublisherList with
\* the list of `keys`: process_event_channel reads the channel event type in
\* the second byte of the event id, and the handler reads the count of the
\* list in the eight bytes after it, the last of which is the first byte of
\* the inner event.
ShiftedPublisherListEvent(keys) ==
    EventFrame(257 + 65536 * Len(keys), ChannelType, << 0 >> \o Concat(keys))

\* UpdatePublisherList events: two in the layout of the protocol, two in the
\* layout the node reads.
ListFrames ==
    << PublisherListEvent(1, << StrangerKey >>),
       PublisherListEvent(257, << StrangerKey >>),
       ShiftedPublisherListEvent(<< >>),
       ShiftedPublisherListEvent(<< StrangerKey >>) >>

\* The latest event ids a Node may have loaded when those events arrive.
ListStarts == {0, 256, 65792}

AllFrames == Frames \o RequestFrames \o PostsFrames \o ListFrames

PostsFrameIds ==
    (Len(Frames) + Len(RequestFrames) + 1)..(Len(Frames) + Len(RequestFrames) + Len(PostsFrames))

ListFrameIds == (Len(AllFrames) - Len(ListFrames) + 1)..Len(AllFrames)

ShortFrameIds ==
    (Len(Frames) + Len(RequestFrames) - Len(ShortFrames) + 1)..(Len(Frames) + Len(RequestFrames))

\* The post ids the post table draws from.
PostIds == {0, 2, 3, 8}

\* The frames of the request and response traffic: RequestFrames, an event
\* that is applied, an event that is stored and an event that fails
\* validation.
RequestFrameIds == {2, 7, 8} \cup ((Len(Frames) + 1)..(Len(Frames) + Len(RequestFrames)))

(***************************************************************************)
(* Results: swarm::Result<()> and the panic of a task.                     *)
(***************************************************************************)
Ok == [res |-> "Ok", err |-> "None"]

MessageMalformed(e) == [res |-> "MessageMalformed", err |-> e]

PersistenceError == [res |-> "Persistence", err |-> "Database"]

Panicked(why) == [res |-> "Panic", err |-> why]

\* Error::Gnunet: a send on a cadet channel failed.
GnunetError == [res |-> "Gnunet", err |-> "Send"]

\* The handler has not returned yet: it is at an await.
Pending == [res |-> "Pending", err |-> "None"]

(***************************************************************************)
(* The persistence gateway, as the operations the node invokes.  The       *)
(* persisted state is the record                                           *)
(*   [profile, channel_event, publisher_event]                             *)
(* with profile the stored ChannelProfile (or NoProfile) and the two event *)
(* tables as the sequences of their rows.                                  *)
(***************************************************************************)
NoProfile == [present |-> FALSE, profile |-> << >>]

\* channel::Handle::fetch_profile
fetch_profile(db) == db.profile

\* The revision of a profile row that was inserted: neither statement of
\* store_profile writes the revision, a new row has the column's default.
InsertedRevision == U64(0)

\* channel::Handle::store_profile: the channel's profile row is given the
\* title, the description, the picture hash and the stylesheet.
store_profile(db, profile) ==
    [db EXCEPT !.profile =
        [present |-> TRUE,
         profile |-> [profile EXCEPT !.base.revision =
                          IF db.profile.present THEN db.profile.profile.base.revision
                          ELSE InsertedRevision]]]

\* A variant of channel_store_event that keeps one row per event id.
channel_store_event_once(db, id, message) ==
    IF \E i \in 1..Len(db.channel_event) : db.channel_event[i].id = id
    THEN db
    ELSE [db EXCEPT !.channel_event = Append(@, [id |-> id, message |-> message])]

\* channel::Handle::store_event: one more row, whatever the table holds.
channel_store_event(db, id, message) ==
    [db EXCEPT !.channel_event = Append(@, [id |-> id, message |-> message])]

\* Handle::get_timeline: the timeline of a publisher that has one.
get_timeline(address) == address \in KnownPublishers

\* timeline::Handle::store_event
timeline_store_event(db, address, id, message) ==
    [db EXCEPT !.publisher_event =
        Append(@, [id |-> id, publisher |-> address, message |-> message])]

\* channel::Handle::load_address
load_address == OwnerKey

(***************************************************************************)
(* Applying an event.  Each operator returns [result, db]: the Result of   *)
(* the Rust function and the persisted state it leaves.  db_ok says        *)
(* whether the database calls made for this frame succeed.                 *)
(***************************************************************************)
\* msg.profile.base.revision > current_profile.unwrap().base.revision
IsNewerRevision(new, current) == U64Greater(new, current)

\* Node::process_event_channel_update_profile once the message is
\* deserialized: the hash check, the signature check, the revision check.
update_profile_checked(db, msg, db_ok, current) ==
    IF Digest(SerializeChannelProfile(msg.profile)) # msg.hash THEN
        [result |-> MessageMalformed("InvalidHash"), db |-> db]
    ELSE IF ~db_ok THEN
        [result |-> PersistenceError, db |-> db]
    ELSE IF ~verify_hash(msg.signature, msg.hash, load_address) THEN
        [result |-> MessageMalformed("InvalidSignature"), db |-> db]
    ELSE IF \/ ~current.present
            \/ IsNewerRevision(msg.profile.base.revision, current.profile.base.revision)
    THEN [result |-> Ok, db |-> store_profile(db, msg.profile)]
    ELSE [result |-> Ok, db |-> db]

update_profile_parsed(db, msg, db_ok) ==
    IF ~msg.ok THEN [result |-> MessageMalformed("DeserializationIssue"), db |-> db]
    ELSE update_profile_checked(db, msg.value, db_ok, fetch_profile(db))

\* swarm.rs, Node::process_event_channel_update_profile
process_event_channel_update_profile(db, id, message, db_ok) ==
    update_profile_parsed(db, DeserializeUpdateChannelProfileEventMessage(message), db_ok)

\* swarm.rs, Node::process_event_channel_update_publisher_list
process_event_channel_update_publisher_list(db, event_id, message) ==
    IF ~DeserializePublicKeyVec(message).ok
    THEN [result |-> MessageMalformed("DeserializationIssue"), db |-> db]
    ELSE [result |-> Ok, db |-> db]

\* swarm.rs, Node::process_event_channel
process_event_channel(db, id, message, db_ok) ==
    IF Len(message) = 0 THEN
        [result |-> MessageMalformed("MissingData"), db |-> db]
    ELSE IF message[1] = 0 THEN
        process_event_channel_update_profile(db, id, Slice(message, 1), db_ok)
    ELSE IF message[1] = 1 THEN
        process_event_channel_update_publisher_list(db, id, Slice(message, 1))
    ELSE [result |-> MessageMalformed("InvalidTypeId"), db |-> db]

\* swarm.rs, Node::process_event_publisher_{publish,revise,forget}_post
process_event_publisher_post(db, publisher, message) ==
    IF ~ReadU64(message).ok
    THEN [result |-> MessageMalformed("DeserializationIssue"), db |-> db]
    ELSE [result |-> Ok, db |-> db]

\* swarm.rs, Node::process_event_publisher_update_profile
process_event_publisher_update_profile(db, publisher, message) ==
    IF ~DeserializeProfile(message).ok
    THEN [result |-> MessageMalformed("DeserializationIssue"), db |-> db]
    ELSE [result |-> Ok, db |-> db]

\* swarm.rs, Node::process_event_publisher
process_event_publisher(db, event_id, address, message) ==
    LET step == PublicKeyLen
    IN  IF Len(message) < step + 1 THEN
            [result |-> MessageMalformed("MissingData"), db |-> db]
        ELSE IF message[step + 1] = 0 THEN
            process_event_publisher_update_profile(db, address, Slice(message, step + 1))
        ELSE IF message[step + 1] \in 1..3 THEN
            process_event_publisher_post(db, address, Slice(message, step + 1))
        ELSE [result |-> MessageMalformed("InvalidTypeId"), db |-> db]

(***************************************************************************)
(* The event processor up to the rebroadcast: the part of                  *)
(* Node::process_event that runs under the latest_event_id mutex.          *)
(* `message` is the frame without its direction byte.  overflow_checks     *)
(* says whether the build panics on integer overflow (a debug build) or    *)
(* wraps (a release build).  Returns [result, latest_event_id, db].        *)
(***************************************************************************)
\* A variant of IsNextEvent that takes every later event for the next one.
IsLaterEvent(id, latest) == U64Greater(id, U64(latest))

\* id == (*latest_event_id + 1)
IsNextEvent(id, latest) == id = WrappingInc(U64(latest)).bytes

\* id - *latest_event_id > 100
IsBeyondWindow(id, latest) ==
    U64GreaterThanSmall(WrappingSub(id, U64(latest)).bytes, EventWindow)

\* id > *latest_event_id
IsFutureEvent(id, latest) == U64Greater(id, U64(latest))

\* The slice handed to process_event_channel and process_event_publisher.
AppliedSlice(message) == Slice(message, 1)

\* A variant of StoredSlice that keeps the id and the event type in the row.
StoredWhole(message, event_type) == message

\* The slice stored for a future event: what follows the id and the event type.
StoredSlice(message, event_type) ==
    Slice(message, 8 + SerializedSizeEventType(event_type))

\* The outcome of process_event that leaves latest_event_id and db alone.
Keep(latest, db, r) == [result |-> r, latest_event_id |-> latest, db |-> db]

\* A variant of NextEventApplied that moves latest_event_id before it knows
\* what the handler returned.
NextEventAppliedEagerly(latest, db, id, applied) ==
    [result |-> applied.result, latest_event_id |-> SmallU64Value(id), db |-> applied.db]

\* lines 230-239: the event is the next one; `applied` is what its handler
\* returned.
NextEventApplied(latest, db, id, applied) ==
    IF applied.result.res = "Ok"
    THEN [result |-> Ok, latest_event_id |-> SmallU64Value(id), db |-> applied.db]
    ELSE Keep(latest, db, applied.result)

\* lines 231-236: the dispatch on the event type, on the slice message[1..].
ApplyEvent(db, id, event_type, message, db_ok) ==
    IF event_type.kind = "Channel"
    THEN process_event_channel(db, id, AppliedSlice(message), db_ok)
    ELSE process_event_publisher(db, id, event_type.address, AppliedSlice(message))

\* lines 248-259: the event is ahead of the next one, within the window.
StoreFutureEvent(latest, db, id, event_type, message, db_ok) ==
    IF ~db_ok THEN Keep(latest, db, PersistenceError)
    ELSE IF event_type.kind = "Channel" THEN
        [result |-> Ok, latest_event_id |-> latest,
         db |-> channel_store_event(db, SmallU64Value(id), StoredSlice(message, event_type))]
    ELSE IF ~get_timeline(event_type.address) THEN
        Keep(latest, db, MessageMalformed("UnknownPublisher"))
    ELSE [result |-> Ok, latest_event_id |-> latest,
          db |-> timeline_store_event(db, event_type.address, SmallU64Value(id),
                                      StoredSlice(message, event_type))]

\* lines 226-261 with the id and the event type deserialized.
process_event_parsed(latest, db, message, id, event_type, db_ok, overflow_checks) ==
    IF overflow_checks /\ WrappingInc(U64(latest)).carry = 1 THEN
        Keep(latest, db, Panicked("attempt to add with overflow"))
    ELSE IF IsNextEvent(id, latest) THEN
        NextEventApplied(latest, db, id, ApplyEvent(db, id, event_type, message, db_ok))
    ELSE IF overflow_checks /\ WrappingSub(id, U64(latest)).borrow = 1 THEN
        Keep(latest, db, Panicked("attempt to subtract with overflow"))
    ELSE IF IsBeyondWindow(id, latest) THEN
        Keep(latest, db, MessageMalformed("InvalidEventId"))
    ELSE IF IsFutureEvent(id, latest) THEN
        StoreFutureEvent(latest, db, id, event_type, message, db_ok)
    ELSE Keep(latest, db, Ok)

\* lines 222-224: deserialize the id, then the event type.
process_event_read(latest, db, message, id, event_type, db_ok, overflow_checks) ==
    IF ~id.ok \/ ~event_type.ok
    THEN Keep(latest, db, MessageMalformed("DeserializationIssue"))
    ELSE process_event_parsed(latest, db, message, id.value, event_type.value, db_ok,
                              overflow_checks)

process_event_locked(latest, db, message, db_ok, overflow_checks) ==
    process_event_read(latest, db, message, ReadU64(message),
                       DeserializeEventType(Slice(message, 8)), db_ok, overflow_checks)

(***************************************************************************)
(* Requests.  `posts` is the set of the ids of the rows of the post table. *)
(***************************************************************************)
\* struct Posts { timeline_id, post_id_start, post_id_count }
DeserializePosts(m) ==
    Bind(ReadPublicKey(m), LAMBDA k :
    Bind(ReadU64(k.rest), LAMBDA st :
    Bind(ReadU16(st.rest), LAMBDA c :
        [ok |-> TRUE,
         value |-> [timeline_id |-> k.value, post_id_start |-> st.value,
                    post_id_count |-> c.value],
         rest |-> c.rest])))

\* get_bit: byte & (1 << (index % 8)) > 0
get_bit(mask, index) == (mask[(index \div 8) + 1] \div (2 ^ (index % 8))) % 2 = 1

\* set_bit: the byte of the mask becomes 1 << (index % 8).
set_bit(mask, index) == [mask EXCEPT ![(index \div 8) + 1] = 2 ^ (index % 8)]

\* timeline::Handle::load_post: the row of the post table with this id.
load_post(posts, post_id) == post_id \in posts

\* The loop `for i in 0..post_id_count`: the posts found and the mask of them.
RECURSIVE CollectPosts(_, _, _, _)
CollectPosts(posts, found, i, post_id_count) ==
    IF i >= post_id_count THEN found
    ELSE CollectPosts(posts,
                      IF load_post(posts, i)
                      THEN [posts |-> Append(found.posts, i),
                            found_mask |-> set_bit(found.found_mask, i)]
                      ELSE found,
                      i + 1, post_id_count)

\* What process_request_posts returns as the payload of the response.
PostsPayload(found) == found.found_mask

\* A handler's outcome that sends nothing.
NoReply(r) == [result |-> r, result_type |-> 0, payload |-> << >>]

\* process_request_posts once the struct Posts is read.
process_request_posts_parsed(posts, message, request, db_ok) ==
    IF Len(message) < PublicKeyLen + 8 + 2 + MaskLength(request.post_id_count)
    THEN NoReply(Panicked("range end index out of range"))
    ELSE IF ~db_ok THEN NoReply(PersistenceError)
    ELSE IF ~get_timeline(request.timeline_id)
    THEN NoReply(MessageMalformed("UnknownPublisher"))
    ELSE [result |-> Ok, result_type |-> 0,
          payload |-> PostsPayload(
              CollectPosts(posts,
                           [posts |-> << >>,
                            found_mask |-> Repeat(0, MaskLength(request.post_id_count))],
                           0, request.post_id_count))]

process_request_posts_read(posts, message, r, db_ok) ==
    IF ~r.ok THEN NoReply(MessageMalformed("DeserializationIssue"))
    ELSE process_request_posts_parsed(posts, message, r.value, db_ok)

\* Node::process_request_posts: [result, result_type, payload].
process_request_posts(posts, message, db_ok) ==
    process_request_posts_read(posts, message, DeserializePosts(message), db_ok)

\* Node::respond: the frame that is sent.
RespondMessage(request_id, result, response) ==
    << 2 >> \o request_id \o << result >> \o response

\* What a handler leaves for the loop: its result and, while it is Pending,
\* the bytes of the call it is about to make.
Handled(r, pending) == [result |-> r, pending |-> pending]

\* process_request after its handler returned `reply`: an error is passed
\* on, a reply goes to Node::respond.
process_request_reply(request_id, reply) ==
    IF reply.result # Ok THEN Handled(reply.result, << >>)
    ELSE Handled(Pending, RespondMessage(request_id, reply.result_type, reply.payload))

\* Node::process_request up to the lock of the socket in the call of respond.
process_request(posts, message, db_ok) ==
    IF Len(message) < 5 THEN Handled(MessageMalformed("MissingData"), << >>)
    ELSE CASE message[5] = 0 ->
                  process_request_reply(Take(message, 4),
                      process_request_posts(posts, Slice(message, 5), db_ok))
           [] message[5] \in {1, 2} -> Handled(Ok, << >>)
           [] OTHER -> Handled(MessageMalformed("InvalidTypeId"), << >>)

\* Node::process_response up to the lock of the session manager: the message
\* is handed to SessionManager::respond whole.
process_response(message) ==
    IF ~ReadU32(message).ok THEN Handled(MessageMalformed("DeserializationIssue"), << >>)
    ELSE Handled(Pending, message)

\* A variant of DirectionTypeOf: a byte that is no direction type is taken
\* for a Response.
DirectionTypeLenient(byte) ==
    CASE byte = 0 -> "Event" [] byte = 1 -> "Request" [] OTHER -> "Response"

\* MessageDirectionType::try_from
DirectionTypeOf(byte) ==
    CASE byte = 0 -> "Event" [] byte = 1 -> "Request" [] byte = 2 -> "Response"
      [] OTHER -> "Invalid"

\* What process_message leaves behind: the handler the frame went to, its
\* result, the state of the Node and the call the handler is waiting for.
Dispatched(handler, r, latest, db, pending) ==
    [handler |-> handler, result |-> r, latest_event_id |-> latest, db |-> db,
     pending |-> pending]

DispatchedEvent(r) == Dispatched("Event", r.result, r.latest_event_id, r.db, << >>)

DispatchedHandler(handler, latest, db, h) == Dispatched(handler, h.result, latest, db, h.pending)

\* Node::process_message up to the first lock its handler takes: the dispatch
\* on the direction byte.
process_message_typed(direction_type, latest, db, posts, message, db_ok, overflow_checks) ==
    CASE direction_type = "Event" ->
             DispatchedEvent(process_event_locked(latest, db, Slice(message, 1), db_ok,
                                                  overflow_checks))
      [] direction_type = "Request" ->
             IF Len(message) < 5
             THEN Dispatched("None", Panicked("range start index out of range"), latest,
                             db, << >>)
             ELSE DispatchedHandler("Request", latest, db,
                                    process_request(posts, Slice(message, 5), db_ok))
      [] direction_type = "Response" ->
             DispatchedHandler("Response", latest, db, process_response(Slice(message, 1)))
      [] OTHER -> Dispatched("None", MessageMalformed("InvalidTypeId"), latest, db, << >>)

process_message(latest, db, posts, message, db_ok, overflow_checks) ==
    IF Len(message) = 0
    THEN Dispatched("None", Panicked("index out of bounds"), latest, db, << >>)
    ELSE process_message_typed(DirectionTypeOf(message[1]), latest, db, posts, message,
                               db_ok, overflow_checks)

(***************************************************************************)
(* The Node.  Socket 0 is the parent socket, sockets 1..children are the   *)
(* child sockets; a socket's cadet channel id is its number.  There is one *)
(* receive loop per socket, named by its socket.                           *)
(***************************************************************************)
VARIABLES
    children,         \* number of child sockets of the Node
    overflow_checks,  \* whether the build panics on integer overflow
    latest_event_id,  \* NodeInner.latest_event_id
    db,               \* the persisted profile and event tables
    socket_lock,      \* per socket: the loop holding its mutex, or Free
    pc,               \* per loop: where it is
    frame,            \* per loop: the frame it received last (0: none)
    outcome,          \* per loop: the result of processing that frame
    skip_channel_id,  \* per loop: the argument of rebroadcast_message
    next_child,       \* per loop: the child the rebroadcast is at
    sends,            \* per loop: the sends issued for its frame, in order
    bad_peer,         \* per loop: the number of on_bad_peer calls for its peer
    received,         \* the number of frames received so far, over all loops
    taken,            \* per loop: the number of frames it received so far
    handler,          \* per loop: the handler its last frame was dispatched to
    pending,          \* per loop: the bytes of the call its handler waits to make
    responses,        \* per loop: the Response frames sent for its last frame
    errors,           \* per loop: the number of on_error calls it made
    respond_returned, \* per loop: what SessionManager::respond returned last
    posts,            \* the ids of the rows of the post table
    sessions,         \* SessionManager.sessions: session id -> its slot
    manager_lock,     \* the holder of NodeInner.session_manager's mutex, or Free
    waiter,           \* the task that calls SessionManager::request
    closed,           \* the sockets whose receiver has no more messages to come
    disconnecting,    \* the task that calls Node::disconnect
    finder,           \* the task that calls Subscription::find_swarm_connection
    inbox,            \* the number of frames the parent peer has delivered
    breakup,          \* a call of breakup_data: its arguments and its blocks
    codec,            \* a Profile that is serialized and deserialized again
    critical          \* the holder of the latest_event_id mutex, and per loop
                      \* the latest event id it read under the mutex

\* What the event processor and the rebroadcast leave alone.
request_vars == << taken, handler, pending, responses, errors, respond_returned, posts,
                   sessions, manager_lock, waiter >>

\* What the receive loops and the session manager leave alone.
outer_vars == << closed, disconnecting, finder, inbox, breakup, codec, critical >>

vars == << children, overflow_checks, latest_event_id, db, socket_lock, pc, frame,
           outcome, skip_channel_id, next_child, sends, bad_peer, received, taken,
           handler, pending, responses, errors, respond_returned, posts, sessions,
           manager_lock, waiter, closed, disconnecting, finder, inbox, breakup,
           codec, critical >>

Parent == 0

AllSockets == 0..MaxChildren

Sockets == 0..children

Free == -1

\* cadet::Channel::id
ChannelId(socket) == socket

NoOutcome == [res |-> "None", err |-> "None"]

\* The task that calls request on the session manager, as a holder of its
\* mutex.
Caller == MaxChildren + 1

\* A slot of the session table: the Sender of a channel, and whether the
\* Receiver of that channel is still there.
Slot(open) == [open |-> open]

\* HashMap::insert
Insert(map, key, value) ==
    [k \in (DOMAIN map) \cup {key} |-> IF k = key THEN value ELSE map[k]]

\* HashMap::remove
Remove(map, key) == [k \in (DOMAIN map) \ {key} |-> map[k]]

\* What request returned: Option<Vec<u8>>, or NoResult before it returned.
NoResult == [returned |-> FALSE, some |-> FALSE, bytes |-> << >>]

None == [returned |-> TRUE, some |-> FALSE, bytes |-> << >>]

Some(bytes) == [returned |-> TRUE, some |-> TRUE, bytes |-> bytes]

\* The waiter before its first call: `channel` is what was sent into the
\* channel of the call, `result` what the last call returned.
Idle == [pc |-> "idle", session_id |-> << >>, channel |-> << >>, result |-> NoResult]

\* Node::disconnect has not been called.
NotDisconnecting == [pc |-> "idle", next_child |-> 0, destroyed |-> << >>]

\* Option<Node>: the Node is known by the address of its parent.
NoNode == [some |-> FALSE, parent_address |-> << >>]

SomeNode(parent_address) == [some |-> TRUE, parent_address |-> parent_address]

\* Subscription::find_swarm_connection is not running.
NotSearching ==
    [pc |-> "idle", sub |-> << >>, next |-> 0, attempts |-> << >>, reported |-> << >>,
     node |-> NoNode]

\* find_swarm_connection is called on the Subscription `sub`: `next` is the
\* turn it is at, `attempts` the calls of Node::connect that returned, with
\* what they returned, `reported` the calls of on_error, `node` what it
\* returns.
Searching(sub) ==
    [pc |-> "searching", sub |-> sub, next |-> 1, attempts |-> << >>, reported |-> << >>,
     node |-> NoNode]

\* No loop holds the latest_event_id mutex.
NoCritical == [holder |-> Free, seen |-> [s \in AllSockets |-> 0]]

\* No Profile is serialized.
NoCodec == [pc |-> "idle", profile |-> << >>, bytes |-> << >>, decoded |-> Failed]

\* breakup_data is not called.
NoBreakup == [pc |-> "idle", data |-> << >>, block_len |-> 1, blocks |-> << >>]

\* The row of the table latest_ids for the type "event": Option<u64>.
NoId == [some |-> FALSE, id |-> 0]

SomeId(id) == [some |-> TRUE, id |-> id]

\* The database of a channel whose latest event id is `latest`: no profile, no
\* stored event, the publishers of KnownPublishers in the table publisher.
Database(latest) ==
    [profile |-> NoProfile, channel_event |-> << >>, publisher_event |-> << >>,
     publisher |-> KnownPublishers, latest_id |-> latest]

\* The state of a Node whose database holds `stored` as the latest event id
\* and `held` in its post table, with `loaded` in NodeInner.latest_event_id,
\* its receive loops at `loops`, and the task of find_swarm_connection at
\* `search`.
NodeAt(held, stored, loaded, loops, search) ==
    /\ children \in 0..MaxChildren
    /\ overflow_checks \in BOOLEAN
    /\ latest_event_id = loaded
    /\ db = Database(SomeId(stored))
    /\ socket_lock = [s \in AllSockets |-> Free]
    /\ pc = [s \in AllSockets |-> IF s <= children THEN loops ELSE "absent"]
    /\ frame = [s \in AllSockets |-> 0]
    /\ outcome = [s \in AllSockets |-> NoOutcome]
    /\ skip_channel_id = [s \in AllSockets |-> Free]
    /\ next_child = [s \in AllSockets |-> 0]
    /\ sends = [s \in AllSockets |-> << >>]
    /\ bad_peer = [s \in AllSockets |-> 0]
    /\ received = 0
    /\ taken = [s \in AllSockets |-> 0]
    /\ handler = [s \in AllSockets |-> "None"]
    /\ pending = [s \in AllSockets |-> << >>]
    /\ responses = [s \in AllSockets |-> << >>]
    /\ errors = [s \in AllSockets |-> 0]
    /\ respond_returned = [s \in AllSockets |-> "NoCall"]
    /\ posts = held
    /\ sessions = << >>
    /\ manager_lock = Free
    /\ waiter = Idle
    /\ closed = {}
    /\ disconnecting = NotDisconnecting
    /\ finder = search
    /\ inbox = 0
    /\ critical = NoCritical

\* The Node after Node::connect loaded `latest` as its latest event id, over
\* a post table that holds `held`.
ConnectedAt(held, latest) == NodeAt(held, latest, latest, "receive", NotSearching)

\* The Node after Node::connect on a channel that has seen no event.
Connected(held) == ConnectedAt(held, 0) /\ breakup = NoBreakup /\ codec = NoCodec

Init == Connected(HeldPosts)

\* The message of the frame loop s received last, without its direction byte.
MessageOf(s) == Slice(AllFrames[frame[s]], 1)

\* A variant of AfterProcessing: the loop goes on after a malformed message.
AfterProcessingLenient(result) ==
    CASE result.res = "Ok" -> "lock_inbound"
      [] result.res = "MessageMalformed" -> "receive"
      [] OTHER -> "panicked"

\* A variant of AfterProcessing: an error that is no MessageMalformed is
\* taken for a transport error, and the loop goes on.
AfterProcessingReported(result) ==
    CASE result.res = "Ok" -> "lock_inbound"
      [] result.res = "MessageMalformed" -> "stopped"
      [] OTHER -> "receive"

\* Where a loop goes after process_message returned `result` before the
\* rebroadcast: on to the rebroadcast, or out of the loop.
AfterProcessing(result) ==
    CASE result.res = "Ok" -> "lock_inbound"
      [] result.res = "MessageMalformed" -> "stopped"
      [] OTHER -> "panicked"

\* Where a loop goes after the dispatch of its frame: a request that is
\* answered goes on to the lock of its socket in the call of respond, a
\* response to the lock of the session manager, a request that is not
\* answered back to receive.
AfterDispatch(r) ==
    CASE r.handler = "Request" /\ r.result = Pending -> "lock_respond"
      [] r.handler = "Response" /\ r.result = Pending -> "lock_session_manager"
      [] r.handler = "Request" /\ r.result = Ok -> "receive"
      [] OTHER -> AfterProcessing(r.result)

\* What an iteration of the receive loop leaves behind when process_message
\* came to `r` before the first lock of its handler.
Received(s, f, r) ==
    /\ frame' = [frame EXCEPT ![s] = f]
    /\ outcome' = [outcome EXCEPT ![s] = r.result]
    /\ latest_event_id' = r.latest_event_id
    /\ db' = r.db
    /\ sends' = [sends EXCEPT ![s] = << >>]
    /\ bad_peer' = [bad_peer EXCEPT ![s] =
                        IF r.result.res = "MessageMalformed" THEN @ + 1 ELSE @]
    /\ pc' = [pc EXCEPT ![s] = AfterDispatch(r)]
    /\ taken' = [taken EXCEPT ![s] = @ + 1]
    /\ handler' = [handler EXCEPT ![s] = r.handler]
    /\ pending' = [pending EXCEPT ![s] = r.pending]
    /\ responses' = [responses EXCEPT ![s] = << >>]
    /\ UNCHANGED << children, overflow_checks, socket_lock, skip_channel_id, next_child,
                    errors, respond_returned, posts, sessions, manager_lock, waiter >>
    /\ UNCHANGED outer_vars

\* One iteration of Node::peer_receive_loop on socket s, receiving frame f:
\* clone the receiver under the socket's mutex, receive, dispatch, and for an
\* event run the critical section of process_event.
Receive(s, f, db_ok) ==
    /\ pc[s] = "receive"
    /\ socket_lock[s] = Free
    /\ received < MaxReceived
    /\ received' = received + 1
    /\ Received(s, f, process_message(latest_event_id, db, posts, AllFrames[f], db_ok,
                                      overflow_checks))

\* The receiver has no more messages: the loop ends.
ReceiveNone(s) ==
    /\ pc[s] = "receive"
    /\ socket_lock[s] = Free
    /\ pc' = [pc EXCEPT ![s] = "closed"]
    /\ UNCHANGED << children, overflow_checks, latest_event_id, db, socket_lock, frame,
                    outcome, skip_channel_id, next_child, sends, bad_peer, received >>
    /\ UNCHANGED request_vars
    /\ UNCHANGED outer_vars

\* A variant of InboundGuardHeld: the guard is dropped once the id is read.
InboundGuardDropped == FALSE

\* Whether the guard of channel.lock() in the call
\*   Self::rebroadcast_message( this, message, channel.lock().await.id(), on_error ).await
\* is still held while rebroadcast_message runs: a temporary lives to the end
\* of its statement.
InboundGuardHeld == TRUE

\* process_event, line 264: lock the inbound socket and read its id.
LockInbound(s) ==
    /\ pc[s] = "lock_inbound"
    /\ socket_lock[s] = Free
    /\ socket_lock' = IF InboundGuardHeld THEN [socket_lock EXCEPT ![s] = s]
                      ELSE socket_lock
    /\ skip_channel_id' = [skip_channel_id EXCEPT ![s] = ChannelId(s)]
    /\ pc' = [pc EXCEPT ![s] = "lock_parent"]
    /\ UNCHANGED << children, overflow_checks, latest_event_id, db, frame, outcome,
                    next_child, sends, bad_peer, received >>
    /\ UNCHANGED request_vars
    /\ UNCHANGED outer_vars

\* Whether rebroadcast_message sends on the parent socket.
SendsToParent(skip) == ChannelId(Parent) # skip

\* The socket the child loop of rebroadcast_message sends on for `child`.
ChildSendSocket(child) == Parent

\* The bytes rebroadcast_message hands to send.
RebroadcastPayload(message) == message

Sent(to, message) == [to |-> to, bytes |-> RebroadcastPayload(message)]

\* What the loops leave alone while they rebroadcast.
rebroadcast_vars == << taken, handler, pending, responses, respond_returned, posts,
                       sessions, manager_lock, waiter >>

\* Where rebroadcast_message goes after a send that failed: on_error is
\* called and the rebroadcast goes on as after a send that succeeded.
AfterSendError(next) == next

\* rebroadcast_message, lines 488-494: lock the parent socket and send on it
\* unless it is the inbound socket.  A send that fails is reported to on_error.
RebroadcastParent(s, send_ok) ==
    /\ pc[s] = "lock_parent"
    /\ socket_lock[Parent] = Free
    /\ socket_lock' = [socket_lock EXCEPT ![Parent] = s]
    /\ sends' = [sends EXCEPT ![s] =
                    IF SendsToParent(skip_channel_id[s])
                    THEN Append(@, Sent(Parent, MessageOf(s))) ELSE @]
    /\ errors' = [errors EXCEPT ![s] =
                     IF SendsToParent(skip_channel_id[s]) /\ ~send_ok THEN @ + 1 ELSE @]
    /\ next_child' = [next_child EXCEPT ![s] = 1]
    /\ pc' = [pc EXCEPT ![s] =
                 IF SendsToParent(skip_channel_id[s]) /\ ~send_ok
                 THEN AfterSendError("children") ELSE "children"]
    /\ UNCHANGED << children, overflow_checks, latest_event_id, db, frame, outcome,
                    skip_channel_id, bad_peer, received >>
    /\ UNCHANGED rebroadcast_vars
    /\ UNCHANGED outer_vars

\* rebroadcast_message, lines 496-502: one turn of the loop over the child
\* sockets (lock the child, send, unlock), or past the last child the return
\* to the receive loop, which drops the guards of the parent and inbound
\* sockets.
RebroadcastChild(s, send_ok) ==
    /\ pc[s] = "children"
    /\ IF next_child[s] <= children
       THEN /\ socket_lock[next_child[s]] = Free
            /\ sends' = [sends EXCEPT ![s] =
                            Append(@, Sent(ChildSendSocket(next_child[s]), MessageOf(s)))]
            /\ errors' = [errors EXCEPT ![s] = IF send_ok THEN @ ELSE @ + 1]
            /\ next_child' = [next_child EXCEPT ![s] = @ + 1]
            /\ pc' = [pc EXCEPT ![s] =
                         IF send_ok THEN "children" ELSE AfterSendError("children")]
            /\ UNCHANGED socket_lock
       ELSE /\ socket_lock' = [t \in AllSockets |->
                                  IF socket_lock[t] = s THEN Free ELSE socket_lock[t]]
            /\ pc' = [pc EXCEPT ![s] = "receive"]
            /\ UNCHANGED << sends, next_child, errors >>
    /\ UNCHANGED << children, overflow_checks, latest_event_id, db, frame, outcome,
                    skip_channel_id, bad_peer, received >>
    /\ UNCHANGED rebroadcast_vars
    /\ UNCHANGED outer_vars

\* The variables of the event processor and of the rebroadcast.
event_vars == << children, overflow_checks, latest_event_id, db, frame, skip_channel_id,
                 next_child, sends, bad_peer, received >>

\* A variant of AfterGnunetError: the loop ends.
AfterGnunetErrorBreak == "closed"

\* Where a loop goes after process_message returned Error::Gnunet: the error
\* goes to on_error and the loop takes its next turn.
AfterGnunetError == "receive"

\* Node::respond, lines 514-516, called from process_request: lock the socket
\* the request arrived on and send the Response frame on it.  A send that
\* fails makes process_message return Error::Gnunet, which the loop hands to
\* on_error before it goes on to receive.
Respond(s, send_ok) ==
    /\ pc[s] = "lock_respond"
    /\ socket_lock[s] = Free
    /\ responses' = [responses EXCEPT ![s] = IF send_ok THEN Append(@, pending[s]) ELSE @]
    /\ outcome' = [outcome EXCEPT ![s] = IF send_ok THEN Ok ELSE GnunetError]
    /\ errors' = [errors EXCEPT ![s] = IF send_ok THEN @ ELSE @ + 1]
    /\ pending' = [pending EXCEPT ![s] = << >>]
    /\ pc' = [pc EXCEPT ![s] = IF send_ok THEN "receive" ELSE AfterGnunetError]
    /\ UNCHANGED event_vars
    /\ UNCHANGED outer_vars
    /\ UNCHANGED << socket_lock, taken, handler, respond_returned, posts, sessions,
                    manager_lock, waiter >>

\* A variant of respond_absent: the table is cleared.
respond_absent_clears(table) == [returned |-> "false", sessions |-> << >>, delivered |-> << >>]

\* SessionManager::respond when the table has no slot for the id.
respond_absent(table) == [returned |-> "false", sessions |-> table, delivered |-> << >>]

\* SessionManager::respond: [returned, sessions, delivered].  The slot is
\* removed, then the message is sent into its channel; the send fails when
\* the Receiver of the channel is gone, and `expect` panics then.
respond(table, session_id, message) ==
    IF session_id \notin DOMAIN table THEN respond_absent(table)
    ELSE IF table[session_id].open
    THEN [returned |-> "true", sessions |-> Remove(table, session_id), delivered |-> message]
    ELSE [returned |-> "panic", sessions |-> Remove(table, session_id), delivered |-> << >>]

\* What the call of respond by loop s leaves behind.
Responded(s, r) ==
    /\ sessions' = r.sessions
    /\ respond_returned' = [respond_returned EXCEPT ![s] = r.returned]
    /\ waiter' = IF r.returned = "true" THEN [waiter EXCEPT !.channel = r.delivered]
                 ELSE waiter
    /\ outcome' = [outcome EXCEPT ![s] =
                      IF r.returned = "panic" THEN Panicked("channel closed") ELSE Ok]
    /\ pc' = [pc EXCEPT ![s] = IF r.returned = "panic" THEN "panicked" ELSE "receive"]

\* Node::process_response, line 472: lock the session manager and call
\* respond with the session id and the message.
RespondLocked(s) ==
    /\ pc[s] = "lock_session_manager"
    /\ manager_lock = Free
    /\ Responded(s, respond(sessions, Take(pending[s], 4), pending[s]))
    /\ pending' = [pending EXCEPT ![s] = << >>]
    /\ UNCHANGED event_vars
    /\ UNCHANGED outer_vars
    /\ UNCHANGED << socket_lock, taken, handler, responses, errors, posts, manager_lock >>

\* A variant of RequestBorrow: the manager is free while request waits.
RequestShared == Free

\* SessionManager::request takes `&mut self`: the task that calls it has the
\* manager to itself, through the guard of its mutex, until request returns.
RequestBorrow == Caller

\* SessionManager::request, lines 39-41: a new channel, and the slot of the
\* session id is set to its Sender.
Request(session_id) ==
    /\ waiter.pc = "idle"
    /\ manager_lock = Free
    /\ manager_lock' = RequestBorrow
    /\ sessions' = Insert(sessions, session_id, Slot(TRUE))
    /\ waiter' = [waiter EXCEPT !.pc = "waiting", !.session_id = session_id,
                                !.channel = << >>, !.result = NoResult]
    /\ UNCHANGED event_vars
    /\ UNCHANGED outer_vars
    /\ UNCHANGED << socket_lock, pc, outcome, taken, handler, pending, responses, errors,
                    respond_returned, posts >>

\* The table once the Receiver of the channel of `session_id` is dropped.
ReceiverDropped(table, session_id) ==
    IF session_id \in DOMAIN table THEN [table EXCEPT ![session_id] = Slot(FALSE)]
    ELSE table

\* SessionManager::request, lines 43-46: the message that was sent into the
\* channel is returned, or nothing once SESSION_TIMEOUT has passed.  The
\* Receiver is dropped; the session table is not touched.
RequestReturns ==
    /\ waiter.pc = "waiting"
    /\ waiter' = [waiter EXCEPT !.pc = "idle",
                                !.result = IF waiter.channel # << >>
                                           THEN Some(waiter.channel) ELSE None,
                                !.channel = << >>]
    /\ sessions' = ReceiverDropped(sessions, waiter.session_id)
    /\ manager_lock' = IF manager_lock = Caller THEN Free ELSE manager_lock
    /\ UNCHANGED event_vars
    /\ UNCHANGED outer_vars
    /\ UNCHANGED << socket_lock, pc, outcome, taken, handler, pending, responses, errors,
                    respond_returned, posts >>

Next ==
    \/ \E s \in Sockets, f \in FrameIds, db_ok \in BOOLEAN : Receive(s, f, db_ok)
    \/ \E s \in Sockets : ReceiveNone(s)
    \/ \E s \in Sockets : LockInbound(s)
    \/ \E s \in Sockets : RebroadcastParent(s, TRUE)
    \/ \E s \in Sockets : RebroadcastChild(s, TRUE)

Spec == Init /\ [][Next]_vars

\* The steps the Node takes on its own, once a frame is in: the tasks of the
\* executor are scheduled fairly.
NodeStep ==
    \E s \in Sockets : LockInbound(s) \/ RebroadcastParent(s, TRUE) \/ RebroadcastChild(s, TRUE)

FairSpec == Spec /\ WF_vars(NodeStep)

\* The Node as Node::connect builds it, with no child socket and the one
\* receive loop of the parent socket, under request and response traffic and
\* with a task that calls request on its session manager.
RequestInit == Init /\ children = 0

\* With no child socket the rebroadcast of an event does not get past the
\* lock of the parent socket, which LockInbound holds: RebroadcastParent
\* and RebroadcastChild are never enabled here.
RequestNext ==
    \/ \E s \in Sockets, f \in RequestFrameIds, db_ok \in BOOLEAN : Receive(s, f, db_ok)
    \/ \E s \in Sockets : ReceiveNone(s)
    \/ \E s \in Sockets : LockInbound(s)
    \/ \E s \in Sockets, send_ok \in BOOLEAN : Respond(s, send_ok)
    \/ \E s \in Sockets : RespondLocked(s)
    \/ \E session_id \in SessionIds : Request(session_id)
    \/ RequestReturns

RequestSpec == RequestInit /\ [][RequestNext]_vars

\* The Node under UpdatePublisherList events, connected at one of ListStarts.
ListInit == \E latest \in ListStarts : ConnectedAt(HeldPosts, latest) /\ breakup = NoBreakup /\ codec = NoCodec

ListNext ==
    \/ \E s \in Sockets, f \in ListFrameIds, db_ok \in BOOLEAN : Receive(s, f, db_ok)
    \/ \E s \in Sockets : ReceiveNone(s)
    \/ \E s \in Sockets : LockInbound(s)
    \/ \E s \in Sockets : RebroadcastParent(s, TRUE)
    \/ \E s \in Sockets : RebroadcastChild(s, TRUE)

ListSpec == ListInit /\ [][ListNext]_vars

\* The frames of TransportSpec: an event that is applied, an event that is
\* stored for later, and an event that is malformed.
TransportFrameIds == {2, 3, 8}

\* The peer of socket s, or the transport under it, closes the channel: from
\* here on the receiver of s has no more messages.
Close(s) ==
    /\ s \notin closed
    /\ closed' = closed \cup {s}
    /\ UNCHANGED << children, overflow_checks, latest_event_id, db, socket_lock, pc,
                    frame, outcome, skip_channel_id, next_child, sends, bad_peer,
                    received, disconnecting, finder, inbox, breakup, codec,
                    critical >>
    /\ UNCHANGED request_vars

\* peer_receive_loop on a socket that is open: receive yields a frame.
ReceiveSome(s, f, db_ok) == s \notin closed /\ Receive(s, f, db_ok)

\* peer_receive_loop on a socket that is closed: receive yields None.
ReceiveClosed(s) == s \in closed /\ ReceiveNone(s)

\* The Node over a transport whose sends may fail and whose channels may be
\* closed at any time.
TransportNext ==
    \/ \E s \in Sockets, f \in TransportFrameIds, db_ok \in BOOLEAN : ReceiveSome(s, f, db_ok)
    \/ \E s \in Sockets : Close(s)
    \/ \E s \in Sockets : ReceiveClosed(s)
    \/ \E s \in Sockets : LockInbound(s)
    \/ \E s \in Sockets, send_ok \in BOOLEAN : RebroadcastParent(s, send_ok)
    \/ \E s \in Sockets, send_ok \in BOOLEAN : RebroadcastChild(s, send_ok)

TransportSpec == Init /\ [][TransportNext]_vars

\* The steps loop s takes on its own: each receive loop is a task of the
\* executor, which polls every task that can go on.
LoopStep(s) ==
    \/ ReceiveClosed(s)
    \/ LockInbound(s)
    \/ \E send_ok \in BOOLEAN : RebroadcastParent(s, send_ok)
    \/ \E send_ok \in BOOLEAN : RebroadcastChild(s, send_ok)

FairTransportSpec == TransportSpec /\ \A s \in AllSockets : WF_vars(LoopStep(s))

\* The lists of at most MaxPeers addresses of a Subscription.
PeerLists ==
    UNION {[1..n -> {PublisherKey, StrangerKey}] : n \in 0..MaxPeers}

\* The Subscriptions of the channel of OwnerKey.
Subscriptions ==
    {[owner |-> OwnerKey, publishers |-> p, cached_peers |-> c] :
        p \in PeerLists, c \in PeerLists}

\* A variant of Candidates: the owner is tried first.
CandidatesOwnerFirst(sub) == << sub.owner >> \o sub.cached_peers \o sub.publishers

\* find_swarm_connection, lines 75-94: the peers it passes to Node::connect,
\* in the order of its three stages.
Candidates(sub) == sub.cached_peers \o sub.publishers \o << sub.owner >>

\* Node::connect, lines 101-104: what it comes to before the Node is built.
\* get_latest_id fails with `?`, a missing row panics in expect, and a
\* channel_connect that fails is Error::Gnunet.
connect(database, db_ok, reachable) ==
    IF ~db_ok THEN [result |-> PersistenceError, latest_event_id |-> 0]
    ELSE IF ~database.latest_id.some
         THEN [result |-> Panicked("latest event id not found"), latest_event_id |-> 0]
    ELSE IF ~reachable THEN [result |-> GnunetError, latest_event_id |-> 0]
    ELSE [result |-> Ok, latest_event_id |-> database.latest_id.id]

\* A variant of AfterConnectError: the search is given up.
AfterConnectErrorReturn(last) == "returned"

\* Where find_swarm_connection goes after on_error: on to the next peer, or
\* past the owner to the return of None.
AfterConnectError(last) == IF last THEN "returned" ELSE "searching"

\* One turn of find_swarm_connection: the call of Node::connect for the next
\* peer, then on_error for an Err, or the return of the Node, which connect
\* built with the latest event id of the database and whose parent loop it
\* handed to runtime::spawn.
TryPeer(db_ok, reachable) ==
    /\ finder.pc = "searching"
    /\ LET peer == Candidates(finder.sub)[finder.next]
           r == connect(db, db_ok, reachable)
           last == finder.next = Len(Candidates(finder.sub))
       IN  /\ finder' =
                 [finder EXCEPT
                     !.pc = CASE r.result = Ok -> "returned"
                              [] r.result.res = "Panic" -> "panicked"
                              [] OTHER -> AfterConnectError(last),
                     !.next = @ + 1,
                     !.attempts = IF r.result.res = "Panic" THEN @
                                  ELSE Append(@, [peer |-> peer, result |-> r.result]),
                     !.reported = IF r.result.res \in {"Persistence", "Gnunet"}
                                  THEN Append(@, peer) ELSE @,
                     !.node = IF r.result = Ok THEN SomeNode(peer) ELSE @]
           /\ pc' = IF r.result = Ok THEN [pc EXCEPT ![Parent] = "spawned"] ELSE pc
           /\ latest_event_id' = IF r.result = Ok THEN r.latest_event_id
                                 ELSE latest_event_id
    /\ UNCHANGED << children, overflow_checks, db, socket_lock, frame, outcome,
                    skip_channel_id, next_child, sends, bad_peer, received, closed,
                    disconnecting, inbox, breakup, codec,
                    critical >>
    /\ UNCHANGED request_vars

\* A variant of SpawnedLoop: the future of the loop is awaited.
SpawnedLoopAwaited == "receive"

\* What becomes of the loop in the task Node::connect spawns (lines 117-123):
\*   runtime::spawn(async move { Node::parent_receive_loop( .. ); });
\* the call builds the future of the loop and the `;` drops it: it is never
\* awaited, so it is never polled, and the task is done at its first poll.
SpawnedLoop == "dropped"

\* A step of the task Node::connect spawned: its first poll, and after it
\* the steps of the loop, if the loop runs.  The loop takes the frames the
\* parent has delivered and it has not yet taken.
SpawnedTask ==
    IF pc[Parent] = "spawned"
    THEN /\ pc' = [pc EXCEPT ![Parent] = SpawnedLoop]
         /\ UNCHANGED << children, overflow_checks, latest_event_id, db, socket_lock,
                         frame, outcome, skip_channel_id, next_child, sends, bad_peer,
                         received >>
         /\ UNCHANGED request_vars
         /\ UNCHANGED outer_vars
    ELSE \/ \E f \in TransportFrameIds, db_ok \in BOOLEAN :
              /\ taken[Parent] < inbox
              /\ ReceiveSome(Parent, f, db_ok)
         \/ LoopStep(Parent)

\* The parent peer sends a frame on the channel of a Node that connect
\* returned.
Deliver ==
    /\ finder.node.some
    /\ Parent \notin closed
    /\ inbox < MaxReceived
    /\ inbox' = inbox + 1
    /\ UNCHANGED << children, overflow_checks, latest_event_id, db, socket_lock, pc,
                    frame, outcome, skip_channel_id, next_child, sends, bad_peer,
                    received, closed, disconnecting, finder, breakup, codec,
                    critical >>
    /\ UNCHANGED request_vars

\* A task on find_swarm_connection for every Subscription within MaxPeers,
\* before any Node exists.
ConnectInit ==
    /\ \E sub \in Subscriptions, stored \in 0..1 :
          NodeAt(HeldPosts, stored, 0, "absent", Searching(sub))
    /\ children = 0
    /\ breakup = NoBreakup /\ codec = NoCodec

ConnectNext ==
    \/ \E db_ok \in BOOLEAN, reachable \in BOOLEAN : TryPeer(db_ok, reachable)
    \/ SpawnedTask
    \/ Deliver
    \/ finder.node.some /\ Close(Parent)

ConnectSpec == ConnectInit /\ [][ConnectNext]_vars

\* runtime::spawn hands the task to tokio, which polls it.
FairConnectSpec == ConnectSpec /\ WF_vars(SpawnedTask)

\* A variant of DisconnectTarget: the parent socket goes first.
DisconnectTargetParentFirst(next, n) == IF next = 1 THEN Parent ELSE next - 1

\* The socket Node::disconnect destroys at turn `next` of the n + 1 it takes
\* on a Node with n child sockets: the children in the order of
\* child_sockets, then the parent socket.
DisconnectTarget(next, n) == IF next <= n THEN next ELSE Parent

\* The frames of DisconnectSpec: an event that is applied and rebroadcast,
\* and an event that is malformed.
DisconnectFrameIds == {2, 8}

\* A task calls Node::disconnect.
Disconnect ==
    /\ disconnecting.pc = "idle"
    /\ disconnecting' = [disconnecting EXCEPT !.pc = "destroying", !.next_child = 1]
    /\ UNCHANGED << children, overflow_checks, latest_event_id, db, socket_lock, pc,
                    frame, outcome, skip_channel_id, next_child, sends, bad_peer,
                    received, closed, finder, inbox, breakup, codec,
                    critical >>
    /\ UNCHANGED request_vars

\* Node::disconnect, lines 139-143: one statement
\*   let _ = socket.lock().await.destroy().await;
\* which waits for the mutex of the socket, destroys the socket and drops the
\* guard; after the statement of the parent socket disconnect returns.
Destroy ==
    /\ disconnecting.pc = "destroying"
    /\ socket_lock[DisconnectTarget(disconnecting.next_child, children)] = Free
    /\ disconnecting' =
          [disconnecting EXCEPT
              !.pc = IF disconnecting.next_child > children THEN "done" ELSE @,
              !.next_child = @ + 1,
              !.destroyed = Append(@, DisconnectTarget(disconnecting.next_child, children))]
    /\ UNCHANGED << children, overflow_checks, latest_event_id, db, socket_lock, pc,
                    frame, outcome, skip_channel_id, next_child, sends, bad_peer,
                    received, closed, finder, inbox, breakup, codec,
                    critical >>
    /\ UNCHANGED request_vars

\* The Node under event traffic, with a task that calls disconnect.
DisconnectNext ==
    \/ \E s \in Sockets, f \in DisconnectFrameIds, db_ok \in BOOLEAN : Receive(s, f, db_ok)
    \/ \E s \in Sockets : ReceiveNone(s)
    \/ \E s \in Sockets : LockInbound(s)
    \/ \E s \in Sockets : RebroadcastParent(s, TRUE)
    \/ \E s \in Sockets : RebroadcastChild(s, TRUE)
    \/ Disconnect
    \/ Destroy

DisconnectSpec == Init /\ [][DisconnectNext]_vars

\* The steps of the rebroadcast of loop s.
RebroadcastStep(s) ==
    LockInbound(s) \/ RebroadcastParent(s, TRUE) \/ RebroadcastChild(s, TRUE)

\* Each receive loop and the caller of disconnect are tasks of the executor,
\* which polls every task that can go on; a mutex that is free is given to a
\* task that waits for it.
FairDisconnectSpec ==
    /\ DisconnectSpec
    /\ \A s \in AllSockets : WF_vars(RebroadcastStep(s))
    /\ WF_vars(Destroy)

\* The frames of ReconnectSpec: the events with the ids 1 and 2, which are
\* applied in their turn.
ReconnectFrameIds == {2, 3}

\* The Subscription of the channel with no other peer than its owner.
OwnerOnly == [owner |-> OwnerKey, publishers |-> << >>, cached_peers |-> << >>]

\* The program ends, at any point of its loops, and is started again: the
\* Node, its sockets and its loops are gone, the database is the one the Node
\* left, and a task calls find_swarm_connection for the same channel.
\* latest_event_id keeps the value the Node had until Node::connect builds
\* the next Node.
Restart ==
    /\ finder.pc = "idle"
    /\ finder' = Searching(OwnerOnly)
    /\ children' = 0
    /\ pc' = [s \in AllSockets |-> "absent"]
    /\ socket_lock' = [s \in AllSockets |-> Free]
    /\ closed' = {}
    /\ UNCHANGED << overflow_checks, latest_event_id, db, frame, outcome,
                    skip_channel_id, next_child, sends, bad_peer, received,
                    disconnecting, inbox, breakup, codec, critical >>
    /\ UNCHANGED request_vars

\* A Node that applies events, and after it a Node that Node::connect builds
\* for the same channel over the same database.
ReconnectNext ==
    \/ \E s \in Sockets, f \in ReconnectFrameIds, db_ok \in BOOLEAN : Receive(s, f, db_ok)
    \/ \E s \in Sockets : ReceiveNone(s)
    \/ \E s \in Sockets : LockInbound(s)
    \/ \E s \in Sockets : RebroadcastParent(s, TRUE)
    \/ \E s \in Sockets : RebroadcastChild(s, TRUE)
    \/ Restart
    \/ \E db_ok \in BOOLEAN, reachable \in BOOLEAN : TryPeer(db_ok, reachable)
    \/ SpawnedTask

ReconnectSpec == Init /\ [][ReconnectNext]_vars

\* breakup_data, lines 146-159: the loop, from the offset i on.
RECURSIVE BreakupFrom(_, _, _, _)
BreakupFrom(data, block_len, i, blocks) ==
    IF Len(data) - i > block_len
    THEN BreakupFrom(data, block_len, i + block_len,
                     Append(blocks, SubSeq(data, i + 1, i + block_len)))
    ELSE Append(blocks, Slice(data, i))

\* persistence/channel.rs, breakup_data
breakup_data(data, block_len) == BreakupFrom(data, block_len, 0, << >>)

\* The byte sequences of a length, over two byte values.
RECURSIVE BytesOfLen(_)
BytesOfLen(n) ==
    IF n = 0 THEN {<< >>}
    ELSE {<< b >> \o m : b \in {7, 200}, m \in BytesOfLen(n - 1)}

BreakupInputs == UNION {BytesOfLen(n) : n \in 0..MaxDataLen}

\* A call of breakup_data on every data within MaxDataLen and every block
\* length within MaxBlockLen.
BreakupInit ==
    /\ ConnectedAt(HeldPosts, 0)
    /\ children = 0
    /\ \E data \in BreakupInputs, block_len \in 1..MaxBlockLen :
          breakup = [pc |-> "called", data |-> data, block_len |-> block_len,
                     blocks |-> << >>]
    /\ codec = NoCodec

BreakupData ==
    /\ breakup.pc = "called"
    /\ breakup' = [breakup EXCEPT !.pc = "returned",
                                  !.blocks = breakup_data(breakup.data, breakup.block_len)]
    /\ UNCHANGED << children, overflow_checks, latest_event_id, db, socket_lock, pc,
                    frame, outcome, skip_channel_id, next_child, sends, bad_peer,
                    received, closed, disconnecting, finder, inbox, codec, critical >>
    /\ UNCHANGED request_vars

BreakupNext == BreakupData

BreakupSpec == BreakupInit /\ [][BreakupNext]_vars

\* The frames of CriticalSpec: an event that is applied, and an event whose
\* handler finds it malformed.
CriticalFrameIds == {2, 8}

\* peer_receive_loop and process_message up to line 224 of process_event, for
\* an Event frame: receive the frame, deserialize its id and its event type.
ReceiveEvent(s, f) ==
    /\ pc[s] = "receive"
    /\ socket_lock[s] = Free
    /\ received < MaxReceived
    /\ DirectionTypeOf(AllFrames[f][1]) = "Event"
    /\ received' = received + 1
    /\ LET message == Slice(AllFrames[f], 1)
           parsed == ReadU64(message).ok /\ DeserializeEventType(Slice(message, 8)).ok
       IN  /\ outcome' = [outcome EXCEPT ![s] =
                             IF parsed THEN Pending
                             ELSE MessageMalformed("DeserializationIssue")]
           /\ bad_peer' = [bad_peer EXCEPT ![s] = IF parsed THEN @ ELSE @ + 1]
           /\ pc' = [pc EXCEPT ![s] = IF parsed THEN "lock_latest" ELSE "stopped"]
    /\ frame' = [frame EXCEPT ![s] = f]
    /\ sends' = [sends EXCEPT ![s] = << >>]
    /\ taken' = [taken EXCEPT ![s] = @ + 1]
    /\ handler' = [handler EXCEPT ![s] = "Event"]
    /\ pending' = [pending EXCEPT ![s] = << >>]
    /\ responses' = [responses EXCEPT ![s] = << >>]
    /\ UNCHANGED << children, overflow_checks, latest_event_id, db, socket_lock,
                    skip_channel_id, next_child, errors, respond_returned, posts,
                    sessions, manager_lock, waiter >>
    /\ UNCHANGED outer_vars

\* A variant of LatestGuard: the guard is dropped once the id is read.
LatestGuardDropped(s) == Free

\* process_event, line 227: `let mut latest_event_id = this.latest_event_id
\* .lock().await;` binds the guard to a name of the block that ends at line
\* 261, so loop s holds the mutex until then.
LatestGuard(s) == s

\* process_event, lines 227-230: lock the latest_event_id mutex and read the
\* latest event id.
LockLatest(s) ==
    /\ pc[s] = "lock_latest"
    /\ critical.holder = Free
    /\ critical' = [holder |-> LatestGuard(s),
                    seen |-> [critical.seen EXCEPT ![s] = latest_event_id]]
    /\ pc' = [pc EXCEPT ![s] = "apply"]
    /\ UNCHANGED << children, overflow_checks, latest_event_id, db, socket_lock, frame,
                    outcome, skip_channel_id, next_child, sends, bad_peer, received,
                    closed, disconnecting, finder, inbox, breakup, codec >>
    /\ UNCHANGED request_vars

\* process_event, lines 230-261: the decision on the latest event id that
\* was read, the handler or the store with their database calls, the
\* assignment of line 238 when the event was applied, and the end of the
\* block, which drops the guard.
ApplyLocked(s, db_ok) ==
    /\ pc[s] = "apply"
    /\ LET r == process_event_locked(critical.seen[s], db, MessageOf(s), db_ok,
                                     overflow_checks)
       IN  /\ latest_event_id' = IF r.latest_event_id # critical.seen[s]
                                 THEN r.latest_event_id ELSE latest_event_id
           /\ db' = r.db
           /\ outcome' = [outcome EXCEPT ![s] = r.result]
           /\ bad_peer' = [bad_peer EXCEPT ![s] =
                               IF r.result.res = "MessageMalformed" THEN @ + 1 ELSE @]
           /\ pc' = [pc EXCEPT ![s] = AfterProcessing(r.result)]
    /\ critical' = [critical EXCEPT !.holder = IF @ = s THEN Free ELSE @]
    /\ UNCHANGED << children, overflow_checks, socket_lock, frame, skip_channel_id,
                    next_child, sends, received, closed, disconnecting, finder, inbox,
                    breakup, codec >>
    /\ UNCHANGED request_vars

\* The Node under event traffic, with the steps of process_event under the
\* latest_event_id mutex taken one by one.
CriticalNext ==
    \/ \E s \in Sockets, f \in CriticalFrameIds : ReceiveEvent(s, f)
    \/ \E s \in Sockets : ReceiveNone(s)
    \/ \E s \in Sockets : LockLatest(s)
    \/ \E s \in Sockets, db_ok \in BOOLEAN : ApplyLocked(s, db_ok)
    \/ \E s \in Sockets : LockInbound(s)
    \/ \E s \in Sockets : RebroadcastParent(s, TRUE)
    \/ \E s \in Sockets : RebroadcastChild(s, TRUE)

CriticalSpec == Init /\ [][CriticalNext]_vars

\* The Profile values that are serialized: the titles and descriptions are
\* ASCII text of a length up to MaxTitleLen and MaxDescriptionLen.
Profiles ==
    {[revision |-> U64(revision), title |-> Repeat(65, tlen),
      description |-> Repeat(66, dlen), profile_picture |-> picture] :
        revision \in 0..3,
        tlen \in {0, 1, MaxTitleLen - 1, MaxTitleLen},
        dlen \in {0, 2, MaxDescriptionLen},
        picture \in {NoHash, SomeHash(Digest(<< 1 >>))}}

\* A Profile that is about to be serialized.
CodecInit ==
    /\ ConnectedAt(HeldPosts, 0)
    /\ children = 0
    /\ breakup = NoBreakup
    /\ \E p \in Profiles :
          codec = [pc |-> "called", profile |-> p, bytes |-> << >>, decoded |-> Failed]

\* bincode::serialize( &profile ), through impl Serialize for Profile.
Encode ==
    /\ codec.pc = "called"
    /\ codec' = [codec EXCEPT !.pc = "encoded", !.bytes = SerializeProfile(codec.profile)]
    /\ UNCHANGED << children, overflow_checks, latest_event_id, db, socket_lock, pc,
                    frame, outcome, skip_channel_id, next_child, sends, bad_peer,
                    received, closed, disconnecting, finder, inbox, breakup, critical >>
    /\ UNCHANGED request_vars

\* bincode::deserialize( &bytes ), through ProfileVisitor::visit_seq.
Decode ==
    /\ codec.pc = "encoded"
    /\ codec' = [codec EXCEPT !.pc = "decoded", !.decoded = DeserializeProfile(codec.bytes)]
    /\ UNCHANGED << children, overflow_checks, latest_event_id, db, socket_lock, pc,
                    frame, outcome, skip_channel_id, next_child, sends, bad_peer,
                    received, closed, disconnecting, finder, inbox, breakup, critical >>
    /\ UNCHANGED request_vars

CodecNext ==
    \/ Encode
    \/ Decode

CodecSpec == CodecInit /\ [][CodecNext]_vars

\* The Node serving Posts requests, over every post table within PostIds.
PostsInit == \E held \in SUBSET PostIds : Connected(held) /\ children = 0

PostsNext ==
    \/ \E s \in Sockets, f \in PostsFrameIds, db_ok \in BOOLEAN : Receive(s, f, db_ok)
    \/ \E s \in Sockets : ReceiveNone(s)
    \/ \E s \in Sockets, send_ok \in BOOLEAN : Respond(s, send_ok)

PostsSpec == PostsInit /\ [][PostsNext]_vars

(***************************************************************************)
(* What the frames carry, read off their bytes.                            *)
(***************************************************************************)
EventIdOf == [f \in FrameIds |-> SmallU64Value(ReadU64(Slice(Frames[f], 1)).value)]

EventTypeOf == [f \in FrameIds |-> DeserializeEventType(Slice(Frames[f], 9)).value]

\* The bytes of the frame after its direction byte, its event id and its
\* event type.
EventBodyOf ==
    [f \in FrameIds |->
        Slice(Frames[f], 9 + (IF EventTypeOf[f].kind = "Channel" THEN 1 ELSE 1 + PublicKeyLen))]

ValidProfileFrames == {f \in FrameIds : Frames[f] = ProfileEvent(EventIdOf[f], 3)}

BadHashFrames == {f \in FrameIds : Frames[f] = BadHashProfileEvent(EventIdOf[f], 3)}

BadSignatureFrames == {f \in FrameIds : Frames[f] = BadSignatureProfileEvent(EventIdOf[f], 3)}

\* Loop s receives and processes a frame in this step.
Receives(s) == pc[s] = "receive" /\ pc'[s] \notin {"receive", "closed"}

\* Loop s has gone on to line 264, the call of rebroadcast_message.
Rebroadcasting(s) == pc[s] \in {"lock_inbound", "lock_parent", "children"}

\* The peer of loop s is reported through on_bad_peer and the loop ends.
Banned(s) == pc'[s] = "stopped" /\ bad_peer'[s] = bad_peer[s] + 1

\* Loop s receives a frame in this step and dispatches it.
Takes(s) == taken'[s] = taken[s] + 1

Buffered(id) ==
    \/ \E i \in 1..Len(db.channel_event) : db.channel_event[i].id = id
    \/ \E i \in 1..Len(db.publisher_event) : db.publisher_event[i].id = id

(***************************************************************************)
(* The claims.                                                             *)
(***************************************************************************)
\* C1: latest_event_id never decreases and never skips a value: every change
\* goes from some v to v + 1, in a step in which a loop processed an event
\* frame with event id v + 1 and process_event came to Ok.
C1_ContiguousLatestEventId ==
    [][ latest_event_id' # latest_event_id =>
            /\ latest_event_id' = latest_event_id + 1
            /\ \E s \in Sockets :
                  /\ Receives(s)
                  /\ EventIdOf[frame'[s]] = latest_event_id'
                  /\ outcome'[s] = Ok ]_vars

\* C1, reached: two events were applied one after the other.
C1_Witness == latest_event_id = 2

\* C2: gap then fill.  Once event 2 is buffered and event 1 has been applied
\* (latest_event_id = 1), the buffered event is applied without being sent
\* again: latest_event_id reaches 2.
C2_GapThenFill == (latest_event_id = 1 /\ Buffered(2)) ~> (latest_event_id = 2)

\* C3: an event frame with event id <= latest_event_id is not applied and not
\* stored, leaves latest_event_id alone, raises no error (the peer is not
\* banned) and goes on to the rebroadcast.
C3_StaleEventIgnored ==
    [][ \A s \in Sockets :
            (Receives(s) /\ EventIdOf[frame'[s]] <= latest_event_id) =>
                /\ outcome'[s] = Ok
                /\ db' = db
                /\ latest_event_id' = latest_event_id
                /\ bad_peer'[s] = bad_peer[s]
                /\ pc'[s] = "lock_inbound" ]_vars

\* C4: an event frame with event id - latest_event_id > 100 fails with
\* InvalidEventId, stores nothing, leaves latest_event_id alone, is not
\* rebroadcast, and its peer is banned and its loop ends; an event frame with
\* event id - latest_event_id <= 100 does not fail with InvalidEventId.
C4_DosBound ==
    [][ \A s \in Sockets :
            Receives(s) =>
                IF EventIdOf[frame'[s]] - latest_event_id > EventWindow
                THEN /\ outcome'[s] = MessageMalformed("InvalidEventId")
                     /\ db' = db
                     /\ latest_event_id' = latest_event_id
                     /\ sends'[s] = << >>
                     /\ Banned(s)
                ELSE outcome'[s] # MessageMalformed("InvalidEventId") ]_vars

C6_FailedApplyChangesNothing ==
    [][ \A s \in Sockets :
            /\ (Receives(s) /\ EventIdOf[frame'[s]] = latest_event_id + 1) =>
                  /\ frame'[s] \in BadHashFrames \cup BadSignatureFrames =>
                        outcome'[s].res # "Ok"
                  /\ outcome'[s].res = "MessageMalformed" =>
                        /\ latest_event_id' = latest_event_id
                        /\ db' = db
                        /\ pc'[s] = "stopped"
                        /\ sends'[s] = << >>
            /\ pc[s] = "stopped" => (pc'[s] = "stopped" /\ sends'[s] = sends[s]) ]_vars

\* C6, reached: a loop stopped on a next event that failed validation.
C6_Witness ==
    \E s \in Sockets :
        /\ pc[s] = "stopped"
        /\ EventIdOf[frame[s]] = latest_event_id + 1
        /\ frame[s] \in BadHashFrames \cup BadSignatureFrames
        /\ outcome[s].res = "MessageMalformed"
        /\ sends[s] = << >>

\* C7: rebroadcast exclusion.  No send of an event frame is issued on the
\* socket the frame arrived on, be it the parent socket or a child socket.
C7_RebroadcastExclusion ==
    \A s \in Sockets : \A i \in 1..Len(sends[s]) : sends[s][i].to # s

\* C7, reached: the rebroadcast of a frame that arrived on the second child
\* socket is past the parent and the first child.
C7_Witness ==
    \E s \in Sockets : s > 1 /\ pc[s] = "children" /\ next_child[s] = s /\ Len(sends[s]) = s

\* C8: rebroadcast coverage.  For an event frame that arrived on socket X the
\* rebroadcast issues exactly one send on the parent socket (if it is not X)
\* and on each child socket other than X: no socket is sent the frame twice,
\* and once the rebroadcast is past a peer, that peer's socket was sent it.
C8_RebroadcastCoverage ==
    \A s \in Sockets :
        /\ \A i, j \in 1..Len(sends[s]) : i # j => sends[s][i].to # sends[s][j].to
        /\ (pc[s] = "children" /\ s # Parent) =>
              \E i \in 1..Len(sends[s]) : sends[s][i].to = Parent
        /\ \A c \in 1..children :
              (pc[s] = "children" /\ next_child[s] > c /\ c # s) =>
                  \E i \in 1..Len(sends[s]) : sends[s][i].to = c

\* C9: a valid UpdateChannelProfile event that is the next event replaces the
\* stored profile if none is stored or its revision is greater, and leaves it
\* alone otherwise; either way no error is raised, latest_event_id advances
\* to the event's id and the loop goes on to the rebroadcast.
C9_ProfileRevisionMonotonic ==
    [][ \A s \in Sockets :
            ( /\ Receives(s)
              /\ frame'[s] \in ValidProfileFrames
              /\ EventIdOf[frame'[s]] = latest_event_id + 1
              /\ outcome'[s] # PersistenceError ) =>
                /\ outcome'[s] = Ok
                /\ latest_event_id' = EventIdOf[frame'[s]]
                /\ pc'[s] = "lock_inbound"
                /\ db'.profile =
                      IF \/ ~db.profile.present
                         \/ U64Greater(U64(3), db.profile.profile.base.revision)
                      THEN [present |-> TRUE, profile |-> ProfileOf(3)]
                      ELSE db.profile ]_vars

\* C10: an UpdateChannelProfile event that is the next event fails with
\* InvalidHash when its hash is not the hash of its profile, and with
\* InvalidSignature when the hash is right and the signature is not the
\* owner's over it; the profile and latest_event_id keep their values and the
\* peer is banned.
C10_HashAndSignatureErrors ==
    [][ \A s \in Sockets :
            ( /\ Receives(s)
              /\ EventIdOf[frame'[s]] = latest_event_id + 1
              /\ outcome'[s] # PersistenceError ) =>
                /\ frame'[s] \in BadHashFrames =>
                      /\ outcome'[s] = MessageMalformed("InvalidHash")
                      /\ db' = db /\ latest_event_id' = latest_event_id /\ Banned(s)
                /\ frame'[s] \in BadSignatureFrames =>
                      /\ outcome'[s] = MessageMalformed("InvalidSignature")
                      /\ db' = db /\ latest_event_id' = latest_event_id /\ Banned(s) ]_vars

\* C11: when processing a frame yields MessageMalformed, on_bad_peer is called
\* once for the peer of that socket, in that step and in no other, and the
\* loop of the socket stops: it takes no frame and makes no call after it.
C11_MalformedStopsLoop ==
    [][ \A s \in Sockets :
            /\ (Takes(s) /\ outcome'[s].res = "MessageMalformed") =>
                  /\ bad_peer' = [bad_peer EXCEPT ![s] = @ + 1]
                  /\ pc'[s] = "stopped"
            /\ bad_peer'[s] # bad_peer[s] =>
                  /\ Takes(s)
                  /\ outcome'[s].res = "MessageMalformed"
                  /\ bad_peer'[s] = 1
            /\ pc[s] = "stopped" =>
                  /\ pc'[s] = "stopped"
                  /\ taken'[s] = taken[s]
                  /\ bad_peer'[s] = bad_peer[s]
                  /\ outcome'[s] = outcome[s]
                  /\ responses'[s] = responses[s] ]_vars

\* C11, reached: a loop that processed one frame stopped on a second, a Posts
\* request that was malformed, with one call of on_bad_peer.
C11_Witness ==
    \E s \in Sockets :
        /\ pc[s] = "stopped"
        /\ taken[s] = 2
        /\ handler[s] = "Request"
        /\ outcome[s].res = "MessageMalformed"
        /\ bad_peer[s] = 1

\* C12: when processing a frame yields a transport error (the send of the
\* Response frame fails), the error is passed to on_error once, on_bad_peer
\* is not called, and the loop is back at receive with its socket unlocked,
\* so that it takes the next frame of the socket.
C12_TransportErrorContinues ==
    [][ \A s \in Sockets :
            /\ (outcome'[s] = GnunetError /\ outcome[s] # GnunetError) =>
                  pc[s] = "lock_respond"
            /\ (pc[s] = "lock_respond" /\ outcome'[s] = GnunetError) =>
                  /\ errors' = [errors EXCEPT ![s] = @ + 1]
                  /\ bad_peer' = bad_peer
                  /\ responses'[s] = << >>
                  /\ pc'[s] = "receive"
                  /\ socket_lock'[s] = Free
            /\ errors'[s] # errors[s] => outcome'[s] = GnunetError ]_vars

\* C12, reached: after a send that failed the loop processed another frame.
C12_Witness ==
    \E s \in Sockets :
        /\ errors[s] = 1
        /\ bad_peer[s] = 0
        /\ taken[s] = 2
        /\ outcome[s] = Ok
        /\ pc[s] = "receive"

\* The loops that hold a Response frame for `session_id` and are about to
\* call respond with it.
RespondCalls(session_id) ==
    {s \in Sockets : pc[s] = "lock_session_manager" /\ Take(pending[s], 4) = session_id}

\* request returns in this step.
Returns == waiter.pc = "waiting" /\ waiter'.pc = "idle"

C14_TimeoutRemovesSlot ==
    [][ /\ (Returns /\ ~waiter'.result.some) => waiter.session_id \notin DOMAIN sessions'
        /\ \A s \in Sockets :
              (pc[s] = "lock_session_manager" /\ pc'[s] # pc[s] /\ waiter.pc = "idle"
                   /\ waiter.result = None) =>
                  /\ respond_returned'[s] = "false"
                  /\ outcome'[s] = Ok ]_vars

\* C15: respond for a session id that has no slot returns false and leaves
\* the session table and the waiter alone, and the Response frame that
\* carried the id is processed without error: the peer is not reported and
\* the loop goes back to receive.  A respond that found the slot leaves the
\* table without it, so that a second respond for the id finds no slot.
C15_RespondWithoutSlot ==
    [][ \A s \in Sockets :
            (pc[s] = "lock_session_manager" /\ pc'[s] # pc[s]) =>
                /\ Take(pending[s], 4) \notin DOMAIN sessions =>
                      /\ respond_returned'[s] = "false"
                      /\ sessions' = sessions
                      /\ waiter' = waiter
                      /\ outcome'[s] = Ok
                      /\ bad_peer' = bad_peer
                      /\ pc'[s] = "receive"
                /\ Take(pending[s], 4) \in DOMAIN sessions =>
                      /\ respond_returned'[s] # "false"
                      /\ sessions' = Remove(sessions, Take(pending[s], 4))
                /\ Take(pending[s], 4) \notin DOMAIN sessions' ]_vars

\* C15, reached: a Response frame for a session id without a slot was
\* processed while another session had a slot.
C15_Witness ==
    \E s \in Sockets :
        /\ handler[s] = "Response"
        /\ respond_returned[s] = "false"
        /\ outcome[s] = Ok
        /\ pc[s] = "receive"
        /\ DOMAIN sessions # {}
        /\ Take(Slice(AllFrames[frame[s]], 1), 4) \notin DOMAIN sessions

\* A Request frame of type Posts: the request type follows the direction
\* byte and the request id.
IsPostsRequestFrame(f) ==
    /\ Len(AllFrames[f]) >= 6 + PublicKeyLen
    /\ AllFrames[f][1] = 1
    /\ AllFrames[f][6] = 0

\* The Response frame is handed to send in this step, and the send succeeds.
Answers(s) == pc[s] = "lock_respond" /\ pc'[s] = "receive" /\ outcome'[s] = Ok

\* C16: a Posts request frame (for a publisher that has a timeline, the
\* database answering) is answered: the node goes on to send a Response
\* frame; and for a request frame that is answered exactly one Response frame
\* is sent on the socket it arrived on, which carries after its direction
\* byte the four bytes that follow the direction byte of the request frame.
C16_ResponseCarriesRequestId ==
    [][ \A s \in Sockets :
            /\ ( /\ Takes(s)
                 /\ IsPostsRequestFrame(frame'[s])
                 /\ SubSeq(AllFrames[frame'[s]], 7, 6 + PublicKeyLen) \in KnownPublishers
                 /\ outcome'[s] # PersistenceError ) =>
                    pc'[s] = "lock_respond"
            /\ Answers(s) =>
                  /\ Len(responses'[s]) = 1
                  /\ Len(responses'[s][1]) >= 6
                  /\ Take(responses'[s][1], 5) =
                         << 2 >> \o SubSeq(AllFrames[frame[s]], 2, 5) ]_vars

\* The struct Posts of a frame of PostsFrames, as process_request_posts
\* reads it.
RequestedPosts == [f \in PostsFrameIds |-> DeserializePosts(Slice(AllFrames[f], 10)).value]

PostIdStartOf == [f \in PostsFrameIds |-> SmallU64Value(RequestedPosts[f].post_id_start)]

PostIdCountOf == [f \in PostsFrameIds |-> RequestedPosts[f].post_id_count]

\* The payload of the Response frame loop s is about to send: what follows
\* the direction byte, the request id and the result type.
ResponsePayload(s) == Slice(pending'[s], 6)

\* Loop s takes a Posts request in this step and comes to its answer.
ServesPosts(s) == Takes(s) /\ frame'[s] \in PostsFrameIds /\ pc'[s] = "lock_respond"

\* C17: the bitmask returned for a Posts request {publisher, post_id_start,
\* post_id_count} has ceil(post_id_count / 8) bytes, and its bit i (LSB first
\* inside each byte) is set if and only if the node holds the post with id
\* post_id_start + i.
C17_BitmaskOfHeldPosts ==
    [][ \A s \in Sockets :
            ServesPosts(s) =>
                /\ Len(ResponsePayload(s)) >= MaskLength(PostIdCountOf[frame'[s]])
                /\ \A i \in 0..(PostIdCountOf[frame'[s]] - 1) :
                      get_bit(ResponsePayload(s), i)
                          <=> (PostIdStartOf[frame'[s]] + i) \in posts ]_vars

\* The bits of the returned mask that are set.
FoundBits(s) ==
    {i \in 0..(PostIdCountOf[frame'[s]] - 1) : get_bit(ResponsePayload(s), i)}

\* What follows the bitmask in the payload.
RecordsOf(s) == Slice(ResponsePayload(s), MaskLength(PostIdCountOf[frame'[s]]))

\* The id a Post record starts with.
Lowest(bits) == CHOOSE i \in bits : \A j \in bits : i <= j

\* C18: a Posts request for a publisher that has a timeline does not fail
\* when posts are missing (the database answering), and the payload of its
\* response holds after the bitmask one Post record for every bit that is
\* set, in ascending post id order, and nothing for the bits that are clear:
\* no bytes when no bit is set, and otherwise records that start with the
\* record of the lowest post found, whose first field is its u64 id.
C18_RecordsAfterBitmask ==
    [][ \A s \in Sockets :
            /\ (Takes(s) /\ frame'[s] \in PostsFrameIds /\ outcome'[s] # PersistenceError) =>
                  pc'[s] = "lock_respond"
            /\ ServesPosts(s) =>
                  IF FoundBits(s) = {} THEN RecordsOf(s) = << >>
                  ELSE /\ Len(RecordsOf(s)) >= 8 * Cardinality(FoundBits(s))
                       /\ Take(RecordsOf(s), 8) =
                              U64(PostIdStartOf[frame'[s]] + Lowest(FoundBits(s))) ]_vars

\* C19: a Posts request that names a publisher key for which the node has no
\* timeline fails with MessageMalformed(UnknownPublisher) (the database
\* answering): no Response frame is sent for it, its peer is reported through
\* on_bad_peer and the loop of its socket ends.
C19_UnknownPublisherRequest ==
    [][ \A s \in Sockets :
            ( /\ Takes(s)
              /\ IsPostsRequestFrame(frame'[s])
              /\ SubSeq(AllFrames[frame'[s]], 7, 6 + PublicKeyLen) \notin KnownPublishers
              /\ outcome'[s] # PersistenceError ) =>
                /\ outcome'[s] = MessageMalformed("UnknownPublisher")
                /\ responses'[s] = << >>
                /\ pending'[s] = << >>
                /\ Banned(s) ]_vars

\* The direction byte of the frame loop s takes in this step.
DirectionByte(s) == AllFrames[frame'[s]][1]

IsFilesOrBlocksFrame(f) ==
    /\ Len(AllFrames[f]) >= 6
    /\ AllFrames[f][1] = 1
    /\ AllFrames[f][6] \in {1, 2}

\* C29: a Files or Blocks request is answered with no Response frame and no
\* error: nothing is sent or about to be sent, the session table,
\* latest_event_id and the persisted state keep their values, the peer is not
\* reported, on_error is not called, and the loop is back at receive.
C29_FilesAndBlocksUnanswered ==
    [][ \A s \in Sockets :
            (Takes(s) /\ IsFilesOrBlocksFrame(frame'[s])) =>
                /\ outcome'[s] = Ok
                /\ responses'[s] = << >>
                /\ pending'[s] = << >>
                /\ sessions' = sessions
                /\ latest_event_id' = latest_event_id
                /\ db' = db
                /\ bad_peer' = bad_peer
                /\ errors' = errors
                /\ pc'[s] = "receive" ]_vars

\* C26: a persistence error raised while a frame is processed is not
\* attributed to the peer and not reported: on_bad_peer and on_error are not
\* called for it, and it leaves the receive loop by way of the panic of line
\* 181, which ends the task of the loop: the loop takes no frame and makes no
\* call after it.
C26_PersistenceErrorPropagates ==
    [][ \A s \in Sockets :
            /\ (Takes(s) /\ outcome'[s] = PersistenceError) =>
                  /\ bad_peer' = bad_peer
                  /\ errors' = errors
                  /\ responses'[s] = << >>
                  /\ pc'[s] = "panicked"
            /\ pc[s] = "panicked" =>
                  /\ pc'[s] = "panicked"
                  /\ taken'[s] = taken[s]
                  /\ bad_peer'[s] = bad_peer[s]
                  /\ errors'[s] = errors[s]
                  /\ outcome'[s] = outcome[s] ]_vars

\* C26, reached: a loop that had reported a transport error through on_error
\* was ended by a persistence error in the storing of an event.
C26_Witness ==
    \E s \in Sockets :
        /\ pc[s] = "panicked"
        /\ outcome[s] = PersistenceError
        /\ taken[s] = 2
        /\ errors[s] = 1
        /\ bad_peer[s] = 0
        /\ handler[s] = "Event"

\* The event id of an event frame.
EventIdOfFrame(f) == SmallU64Value(ReadU64(Slice(AllFrames[f], 1)).value)

\* Whether a frame of ListFrames is laid out as the protocol says.
IsListLayout(f) == AllFrames[f][11] = 1

\* The keys an UpdatePublisherList frame carries: after the channel event
\* type in the layout of the protocol, and where the handler reads them in
\* the layout the node reads.
CarriedKeys(f) ==
    IF IsListLayout(f) THEN DeserializePublicKeyVec(Slice(AllFrames[f], 11)).value
    ELSE DeserializePublicKeyVec(Slice(AllFrames[f], 3)).value

KeySet(keys) == {keys[i] : i \in 1..Len(keys)}

\* C23: after a Channel / UpdatePublisherList event with event id
\* latest_event_id + 1 has been applied (process_event came to Ok and
\* latest_event_id is the id of the event), the persisted publisher list is
\* the list of the keys the event carries.
C23_PublisherListReplaced ==
    [][ \A s \in Sockets :
            ( /\ Takes(s)
              /\ frame'[s] \in ListFrameIds
              /\ EventIdOfFrame(frame'[s]) = latest_event_id + 1
              /\ outcome'[s] = Ok
              /\ latest_event_id' = latest_event_id + 1 ) =>
                db'.publisher = KeySet(CarriedKeys(frame'[s])) ]_vars

\* C24: an UpdatePublisherList event that is the next event and carries no
\* hash and no signature of the channel owner (the frames of ListFrames carry
\* the list alone) is rejected as MessageMalformed: latest_event_id keeps its
\* value, nothing is sent on, the peer is reported and its loop ends.
C24_UnsignedPublisherListRejected ==
    [][ \A s \in Sockets :
            ( /\ Takes(s)
              /\ frame'[s] \in ListFrameIds
              /\ EventIdOfFrame(frame'[s]) = latest_event_id + 1 ) =>
                /\ outcome'[s].res = "MessageMalformed"
                /\ latest_event_id' = latest_event_id
                /\ sends'[s] = << >>
                /\ Banned(s) ]_vars

\* ceil(n / b) for b > 0.
CeilDiv(n, b) == (n \div b) + (IF n % b > 0 THEN 1 ELSE 0)

\* C30: for every data of length n >= 0 and every block length B > 0,
\* breakup_data returns ceil(n / B) slices, every slice but the last has
\* length B, and the slices concatenated in order are the data.
C30_BreakupData ==
    breakup.pc = "returned" =>
        /\ Len(breakup.blocks) = CeilDiv(Len(breakup.data), breakup.block_len)
        /\ \A i \in 1..(Len(breakup.blocks) - 1) : Len(breakup.blocks[i]) = breakup.block_len
        /\ Concat(breakup.blocks) = breakup.data

\* Loop s reports a failed send of its rebroadcast through on_error in this
\* step.
SendFails(s) ==
    /\ pc[s] \in {"lock_parent", "children"}
    /\ errors'[s] = errors[s] + 1

\* C25: a send that fails during the rebroadcast of loop s is reported
\* through on_error once, the rebroadcast goes on to the next peer, the
\* latest event id keeps its new value, the peer that sent the event is not
\* banned, and the loop comes back to receive.
C25_SendFailureDoesNotAbort ==
    /\ [][\A s \in AllSockets :
            SendFails(s) =>
                /\ Len(sends'[s]) = Len(sends[s]) + 1
                /\ pc'[s] = "children"
                /\ next_child'[s] > next_child[s] \/ pc[s] = "lock_parent"
                /\ latest_event_id' = latest_event_id
                /\ outcome'[s] = Ok
                /\ bad_peer'[s] = bad_peer[s]]_vars
    /\ \A s \in AllSockets :
            (Rebroadcasting(s) /\ errors[s] > 0) ~> (pc[s] = "receive")

\* C27: a loop that finds its receiver without more messages ends without a
\* call of on_bad_peer or on_error, and the loop of a socket that is closed
\* eventually ends.
C27_ClosedSocketEndsLoop ==
    /\ [][\A s \in AllSockets :
            (pc[s] = "receive" /\ pc'[s] = "closed") =>
                /\ bad_peer'[s] = bad_peer[s]
                /\ errors'[s] = errors[s]]_vars
    /\ \A s \in AllSockets :
            (s \in closed /\ s <= children) ~> (pc[s] \in {"closed", "stopped", "panicked"})

\* The sockets disconnect has destroyed before position i of its sequence.
DestroyedBefore(i) == {disconnecting.destroyed[j] : j \in 1..(i - 1)}

\* C28: disconnect destroys the parent socket only after it has destroyed
\* every child socket, it destroys nothing after the parent socket, no socket
\* twice, and when it has returned every socket of the Node is destroyed.
C28_DisconnectOrder ==
    /\ \A i \in 1..Len(disconnecting.destroyed) :
          /\ disconnecting.destroyed[i] \notin DestroyedBefore(i)
          /\ disconnecting.destroyed[i] = Parent =>
                /\ DestroyedBefore(i) = 1..children
                /\ i = Len(disconnecting.destroyed)
    /\ disconnecting.pc = "done" =>
          DestroyedBefore(Len(disconnecting.destroyed) + 1) = Sockets

\* A disconnect of a Node with two child sockets has returned, while one of
\* the loops had ended on a malformed frame.
C28_Witness ==
    /\ children = 2
    /\ disconnecting.pc = "done"
    /\ disconnecting.destroyed = << 1, 2, Parent >>
    /\ \E s \in Sockets : pc[s] = "stopped"

\* The peers of the Subscription in the order the claim states: the cached
\* peers, the publishers, the owner.
StatedOrder ==
    finder.sub.cached_peers \o finder.sub.publishers \o << finder.sub.owner >>

\* The attempts that failed, in order.
FailedAttempts == SelectSeq(finder.attempts, LAMBDA a : a.result # Ok)

C21_ParentLoopRuns ==
    \A n \in 1..MaxReceived :
        (finder.node.some /\ inbox >= n)
            ~> (taken[Parent] >= n \/ Parent \in closed \/ pc[Parent] = "stopped")

\* C31: a Profile that is serialized and deserialized again comes back as
\* it was: the deserializer succeeds, consumes every byte, and yields the
\* revision, title, description and picture of the Profile.
C31_ProfileRoundTrip ==
    codec.pc = "decoded" =>
        /\ codec.decoded.ok
        /\ codec.decoded.value = codec.profile
        /\ codec.decoded.rest = << >>

\* C32: a loop inside rebroadcast_message does not hold the mutex of the
\* socket its frame arrived on; a loop that applied an event finishes the
\* rebroadcast and is back at receive; and a disconnect that was called
\* returns.
C32_NoSocketDeadlock ==
    /\ [](\A s \in AllSockets : pc[s] \in {"lock_parent", "children"} => socket_lock[s] # s)
    /\ \A s \in AllSockets : Rebroadcasting(s) ~> (pc[s] = "receive")
    /\ (disconnecting.pc = "destroying") ~> (disconnecting.pc = "done")

\* C33: while request(session_id) waits, a loop that has a Response frame
\* for that session id and is about to lock the session manager can go on
\* to respond: the waiting request does not keep the manager from it.
C33_RespondWhileRequestWaits ==
    \A s \in AllSockets :
        (/\ waiter.pc = "waiting"
         /\ pc[s] = "lock_session_manager"
         /\ Take(pending[s], 4) = waiter.session_id)
            => ENABLED RespondLocked(s)

\* Loop s comes out of the block of the latest_event_id mutex in this step.
LeavesCritical(s) == pc[s] = "apply" /\ pc'[s] # "apply"

\* C34: no two loops are inside the block of the latest_event_id mutex at the
\* same time; a loop that applies an event moves latest_event_id from the
\* value before the event's id to the event's id, so an event id is applied
\* once; and a loop whose frame carries the latest event id, which another
\* loop applied, changes neither latest_event_id nor the database and comes
\* to Ok.
C34_ApplyIsCritical ==
    /\ [](\A s, t \in AllSockets : (pc[s] = "apply" /\ pc[t] = "apply") => s = t)
    /\ [][\A s \in AllSockets :
            LeavesCritical(s) =>
                /\ (outcome'[s] = Ok /\ EventIdOf[frame[s]] = critical.seen[s] + 1) =>
                      /\ latest_event_id = EventIdOf[frame[s]] - 1
                      /\ latest_event_id' = EventIdOf[frame[s]]
                /\ EventIdOf[frame[s]] = latest_event_id =>
                      /\ latest_event_id' = latest_event_id
                      /\ db' = db
                      /\ outcome'[s] = Ok]_vars

\* Two loops took the same event with id 1 at latest_event_id = 0: the event
\* was applied by one of them and both came to Ok.
C34_Witness ==
    /\ latest_event_id = 1
    /\ \E s, t \in Sockets :
          /\ s # t
          /\ frame[s] = 2 /\ frame[t] = 2
          /\ outcome[s] = Ok /\ outcome[t] = Ok
          /\ critical.seen[s] = 0 /\ critical.seen[t] = 1

\* C35: the bytes of every send of a rebroadcast are the Event frame the loop
\* received: the direction byte of Event, then the event bytes as they came,
\* so that the peer that receives them dispatches them to process_event.
C35_RebroadcastIsEventFrame ==
    \A s \in AllSockets : \A i \in 1..Len(sends[s]) :
        /\ sends[s][i].bytes = << 0 >> \o MessageOf(s)
        /\ sends[s][i].bytes = AllFrames[frame[s]]
        /\ DirectionTypeOf(sends[s][i].bytes[1]) = "Event"

\* C36: a loop that takes a frame too short for the fields its handler reads
\* comes to MessageMalformed, reports the peer through on_bad_peer and ends;
\* it does not panic.
C36_ShortFrameIsMalformed ==
    [][\A s \in AllSockets :
          (Takes(s) /\ frame'[s] \in ShortFrameIds) =>
              /\ outcome'[s].res = "MessageMalformed"
              /\ bad_peer'[s] = bad_peer[s] + 1
              /\ pc'[s] = "stopped"]_vars

\* What the handler of an event returns when it is handed the bytes that
\* follow the event id and the tag of the event type: for a Channel event the
\* ChannelEventType and its payload, for a Publisher event the publisher key,
\* the PublisherEventType after it and its payload.
HandledAsLaidOut(f, db_ok) ==
    IF EventTypeOf[f].kind = "Channel"
    THEN process_event_channel(db, ReadU64(Slice(Frames[f], 1)).value,
                               Slice(Frames[f], 10), db_ok)
    ELSE process_event_publisher(db, ReadU64(Slice(Frames[f], 1)).value,
                                 EventTypeOf[f].address, Slice(Frames[f], 10))

\* C37: a loop that takes the event after the latest one comes to what the
\* handler of the event returns on the bytes laid out in the frame: the type
\* of the Channel or Publisher event read from its place after the event id
\* and the event type, the payload from what follows it.
C37_EventTypeOffset ==
    [][\A s \in Sockets :
          (/\ Takes(s)
           /\ frame'[s] \in FrameIds
           /\ EventIdOf[frame'[s]] = latest_event_id + 1) =>
              \E db_ok \in BOOLEAN :
                  /\ outcome'[s] = HandledAsLaidOut(frame'[s], db_ok).result
                  /\ db' = HandledAsLaidOut(frame'[s], db_ok).db]_vars


\* C38: a Publisher event of a publisher that has no timeline, received as the
\* next event (event id = latest_event_id + 1) or as a future event inside the
\* window, the database answering, is rejected with
\* MessageMalformed(UnknownPublisher): latest_event_id and the persisted state
\* keep their values and the loop stops with no send issued.
C38_UnknownPublisherEvent ==
    [][\A s \in Sockets :
          (/\ Receives(s)
           /\ EventTypeOf[frame'[s]].kind = "Publisher"
           /\ EventTypeOf[frame'[s]].address \notin KnownPublishers
           /\ latest_event_id < EventIdOf[frame'[s]]
           /\ EventIdOf[frame'[s]] <= latest_event_id + EventWindow
           /\ outcome'[s] # PersistenceError) =>
              /\ outcome'[s] = MessageMalformed("UnknownPublisher")
              /\ latest_event_id' = latest_event_id
              /\ db' = db
              /\ pc'[s] = "stopped"
              /\ sends'[s] = << >>]_vars


\* The number of stored events with the given id, in the channel event store
\* and in the timelines' event store together.
StoredCount(d, id) ==
    Cardinality({i \in 1..Len(d.channel_event) : d.channel_event[i].id = id})
    + Cardinality({i \in 1..Len(d.publisher_event) : d.publisher_event[i].id = id})

\* C39: storing a future event does not look for its id among the stored
\* ones.  Every receipt of an event frame with latest_event_id + 1 < event id
\* <= latest_event_id + 100 (a Channel event, or a Publisher event of a
\* publisher that has a timeline, the database answering) adds exactly one
\* stored entry with that id, also when entries with that id are stored.
C39_FutureEventStoredAgain ==
    [][\A s \in Sockets :
          (/\ Receives(s)
           /\ latest_event_id + 1 < EventIdOf[frame'[s]]
           /\ EventIdOf[frame'[s]] <= latest_event_id + EventWindow
           /\ \/ EventTypeOf[frame'[s]].kind = "Channel"
              \/ EventTypeOf[frame'[s]].address \in KnownPublishers
           /\ outcome'[s] # PersistenceError) =>
              /\ StoredCount(db', EventIdOf[frame'[s]])
                    = StoredCount(db, EventIdOf[frame'[s]]) + 1
              /\ Len(db'.channel_event) + Len(db'.publisher_event)
                    = Len(db.channel_event) + Len(db.publisher_event) + 1]_vars

\* C39, reached: the same Channel event arrived on two sockets ahead of its
\* turn and the channel event store holds two entries with its id.
C39_Witness ==
    /\ \E i, j \in 1..Len(db.channel_event) :
          i # j /\ db.channel_event[i].id = db.channel_event[j].id
    /\ \E s, t \in Sockets :
          /\ s # t
          /\ frame[s] = frame[t]
          /\ frame[s] \in FrameIds
          /\ EventTypeOf[frame[s]].kind = "Channel"
          /\ EventIdOf[frame[s]] > latest_event_id + 1


\* C40: the latest event id of the database follows the Node's
\* latest_event_id.  A Node that Node::connect builds after an earlier Node of
\* the channel applied the events up to k starts with latest_event_id = k:
\* the call of connect that returns the Node leaves latest_event_id at the
\* value the earlier Node had, and the row of the database holds that value.
C40_ReconnectLoadsLatest ==
    [][(finder.pc = "searching" /\ finder'.node.some) =>
          /\ latest_event_id' = latest_event_id
          /\ db.latest_id = SomeId(latest_event_id)]_vars

=============================================================================
